---- MODULE Spec2Model ----
(***************************************************************************)
(* State-machine model of the android-genymotion-backend session           *)
(* lifecycle: the request path (api.py), the domain models (domain.py),    *)
(* the three queue/timer handlers and the device-control coordinator       *)
(* (application_manager.py).                                               *)
(*                                                                         *)
(* Identifiers.  A session id (KSUID) is a slot number s in Sessions; the  *)
(* EC2 instance launched for slot s has id InstanceIdOf(s) and, while it   *)
(* runs, the public address IpOf(s).  Time is counted in minutes.          *)
(***************************************************************************)
EXTENDS Integers, Sequences, FiniteSets, TLC

MaxSessions == 2
MaxQueue == 2
MaxNow == 31
ScanFrom == 8
ScanSpan == 2
MaxFiles == 2

inactivity_minutes == 15

Sessions == 1 .. MaxSessions

\* The lifecycle specification follows one session through its whole life; the
\* sweep specification runs over all of Sessions.
Focus == {1}

VARIABLES
    sessions,   \* table partition SESSION: session id -> Session item
    pings,      \* table partition SESSION#PING: session id -> SessionPing item
    ec2,        \* provider truth: lifecycle state of the instance of each slot
    dns,        \* hosted zone: A record of the session domain (0 = no record)
    taskQ,      \* SessionTasksQueue: per session, the instance ids of its messages
    termQ,      \* SessionTerminationQueue: per session, number of messages
    now,        \* wall clock, minutes
    lastOp,     \* observation: the operation that ran last and what it did
    scanned,    \* result of the last liveness scan (scan specification)
    dev,        \* per session, the state of the Android device on its instance
    recordings, \* names of the files in /sdcard/recordings of the session's device
    videos,     \* table partition VIDEO: video id -> Video item
    tmp,        \* files in the coordinator's local /tmp
    bucket,     \* keys of the objects in the recordings bucket
    catalog,    \* table partitions AMI and GAME
    recorder,   \* the control file, the recording scripts running on the device
                \* and the position of _stop_screen_recording
    inflight    \* per session, what a handler holds between two of its calls: the
                \* liveness item a ping request read, the instance_info the setup
                \* handler's wait returned

mediaVars == <<recordings, videos, tmp, bucket, catalog, recorder, inflight>>

vars == <<sessions, pings, ec2, dns, taskQ, termQ, now, lastOp, scanned, dev, mediaVars>>

-----------------------------------------------------------------------------
(* Values *)

None == <<>>                      \* Python None for an optional timestamp
NoIp == 0
InstanceIdOf(s) == 100 + s
IpOf(s) == 200 + s

\* datetime.isoformat(): fixed-width, zero-padded fields, most significant first
IsoFormat(t) == <<t \div 10, t % 10>>

\* Python/DynamoDB string comparison "a < b" on two such strings
RECURSIVE StrLt(_, _)
StrLt(a, b) ==
    IF b = <<>> THEN FALSE
    ELSE IF a = <<>> THEN TRUE
    ELSE IF Head(a) < Head(b) THEN TRUE
    ELSE IF Head(a) > Head(b) THEN FALSE
    ELSE StrLt(Tail(a), Tail(b))

\* schemas.Session as stored by create_session
NewSession(s) ==
    [instance |-> InstanceIdOf(s), ssl_configured |-> FALSE, end_time |-> None]

\* schemas.SessionPing; valid = the item has every required field, so that
\* SessionPing(**item) deserialises
NewPing(active, t) ==
    [valid |-> TRUE, instance_active |-> active, last_accessed_on |-> IsoFormat(t),
     scheduled_for_deletion |-> FALSE]

\* An item that update_item created for a key that had none: it holds the key
\* and the one attribute that was SET, nothing else
PartialPing ==
    [valid |-> FALSE, instance_active |-> FALSE, last_accessed_on |-> None,
     scheduled_for_deletion |-> FALSE]

\* a freshly booted device: no root access, the image's own certificate, no
\* kiosk mode, data and WiFi on
NoDevice == [root_access |-> 0, cert |-> FALSE, kiosk |-> FALSE, net |-> TRUE]

\* an empty catalog
NoCatalog == [amis |-> <<>>, games |-> << >>]

\* "session.instance is None"
NoInstance == [instance_id |-> 0, instance_state |-> "none", instance_ip |-> NoIp]

\* no request between its read and its write, no setup between its wait and
\* its DNS record
NoInflight ==
    [ping |-> [s \in Sessions |-> None], setup |-> [s \in Sessions |-> NoInstance]]

\* a freshly booted device and an idle coordinator: no recordings directory, no
\* control file, no script running, no stop under way
NoRecorder == [dir |-> FALSE, flag |-> FALSE, loops |-> <<>>, stop |-> "idle"]

\* nothing recorded, nothing uploaded, no catalog
NoMedia ==
    /\ recordings = <<>>
    /\ videos = << >>
    /\ tmp = {}
    /\ bucket = {}
    /\ catalog = NoCatalog
    /\ recorder = NoRecorder
    /\ inflight = NoInflight

\* Session.session_id, read by update_session_status and declared in no source
\* file: the id of the session, its sort key SK
Session_session_id(s) == s

NoSent == [s \in Sessions |-> 0]

Op(op, sid, result, seq, sent, log) ==
    [op |-> op, sid |-> sid, result |-> result, seq |-> seq, sent |-> sent, log |-> log]

-----------------------------------------------------------------------------
(* Store adapter (DynamoDBModel) and liveness record (SessionPingModel) *)

Min(a, b) == IF a < b THEN a ELSE b

Range(f) == {f[i] : i \in DOMAIN f}

RECURSIVE SortedSeq(_)
SortedSeq(S) ==
    IF S = {} THEN <<>>
    ELSE LET m == CHOOSE x \in S : \A y \in S : x <= y
         IN  <<m>> \o SortedSeq(S \ {m})

\* get_item_by_id on the ping partition raises when the item does not deserialise
PingReadable(p, s) == s \in DOMAIN p => p[s].valid

\* a write of the flag that also marks the record as not responding
Mut_update_scheduled_marks_inactive(p, s, v) ==
    IF s \in DOMAIN p
    THEN [p EXCEPT ![s].scheduled_for_deletion = v, ![s].instance_active = FALSE]
    ELSE p @@ (s :> [PartialPing EXCEPT !.scheduled_for_deletion = v])

update_scheduled_for_deletion(p, s, v) ==
    IF s \in DOMAIN p
    THEN [p EXCEPT ![s].scheduled_for_deletion = v]
    ELSE p @@ (s :> [PartialPing EXCEPT !.scheduled_for_deletion = v])

update_instance_active(p, s, v) ==
    IF s \in DOMAIN p
    THEN [p EXCEPT ![s].instance_active = v]
    ELSE p @@ (s :> [PartialPing EXCEPT !.instance_active = v])

\* update_last_accessed after its get_item_by_id returned (item readable)
update_last_accessed(p, s, instance_active, t) ==
    IF s \notin DOMAIN p
    THEN p @@ (s :> NewPing(instance_active, t))
    ELSE [p EXCEPT ![s].last_accessed_on = IsoFormat(t),
                   ![s].instance_active = instance_active]

Mut_InactiveFilterIgnoresScheduled(item, cutoff_iso) ==
    /\ item.instance_active = TRUE
    /\ StrLt(item.last_accessed_on, cutoff_iso)

Mut_InactiveFilterNotStrict(item, cutoff_iso) ==
    /\ item.instance_active = TRUE
    /\ item.scheduled_for_deletion = FALSE
    /\ ~StrLt(cutoff_iso, item.last_accessed_on)

\* FilterExpression of the scan (the PK test keeps the ping items only)
InactiveFilter(item, cutoff_iso) ==
    /\ item.instance_active = TRUE
    /\ item.scheduled_for_deletion = FALSE
    /\ StrLt(item.last_accessed_on, cutoff_iso)

\* One table.scan call: reads the next pageSize items after start in key order,
\* filters them, and reports LastEvaluatedKey (0 = none) when it stopped on the limit
ScanPage(p, cutoff_iso, start, pageSize) ==
    LET read == {k \in DOMAIN p :
                    /\ k > start
                    /\ Cardinality({j \in DOMAIN p : start < j /\ j <= k}) <= pageSize}
        last == IF Cardinality(read) = pageSize
                THEN CHOOSE k \in read : \A j \in read : j <= k
                ELSE 0
    IN  [Items |-> SortedSeq({k \in read : InactiveFilter(p[k], cutoff_iso)}),
         LastEvaluatedKey |-> last]

\* a scan that stops after its first response
Mut_ScanLoopFirstPageOnly(p, cutoff_iso, exclusive_start_key, pageSize, session_pings) ==
    session_pings \o ScanPage(p, cutoff_iso, exclusive_start_key, pageSize).Items

\* the "while True" loop: scan, extend, go on from LastEvaluatedKey until the
\* response has none
RECURSIVE ScanLoop(_, _, _, _, _)
ScanLoop(p, cutoff_iso, exclusive_start_key, pageSize, session_pings) ==
    LET response == ScanPage(p, cutoff_iso, exclusive_start_key, pageSize)
        found == session_pings \o response.Items
    IN  IF response.LastEvaluatedKey = 0
        THEN found
        ELSE ScanLoop(p, cutoff_iso, response.LastEvaluatedKey, pageSize, found)

\* the ids (SK) of the selected liveness records, in scan order
get_inactive_session_pings(p, t, pageSize) ==
    ScanLoop(p, IsoFormat(t - inactivity_minutes), 0, pageSize, <<>>)

\* the scan limit: one item a page, or the whole table in one page
PageSizes == {1, MaxSessions}

-----------------------------------------------------------------------------
(* Compute provider (InstanceModel) and session reads (SessionModel) *)

CompleteInstanceInfo(s) ==
    [instance_id |-> InstanceIdOf(s), instance_state |-> ec2[s],
     instance_ip |-> IF ec2[s] = "running" THEN IpOf(s) ELSE NoIp]

\* describe_instances: no reservation, or a ClientError, gives None
get_instance_info(s, api) ==
    IF api = "error" \/ ec2[s] \in {"none", "gone"}
    THEN NoInstance
    ELSE CompleteInstanceInfo(s)

\* None when the record is missing or anything raised; otherwise the session
\* with its instance field replaced by the provider's view
get_session_by_id(s, read, api) ==
    IF read = "ok" /\ s \in DOMAIN sessions /\ PingReadable(pings, s)
    THEN [found |-> TRUE, instance |-> get_instance_info(s, api)]
    ELSE [found |-> FALSE, instance |-> NoInstance]

\* terminate_instances accepted by the provider
terminate_instance(e, s) ==
    IF e[s] \in {"pending", "running"} THEN [e EXCEPT ![s] = "shutting-down"] ELSE e


-----------------------------------------------------------------------------
(* Request path: StartSession, EndSession, session and ping reads *)

otherVars == <<scanned, dev, mediaVars>>

\* the slot the next created instance and session id take
NextSlot ==
    IF \A s \in Sessions : ec2[s] # "none" THEN 0
    ELSE CHOOSE s \in Sessions :
            /\ ec2[s] = "none"
            /\ \A r \in Sessions : ec2[r] = "none" => s <= r

Mut_enqueue_creation_task_twice(q, s, instance_id) ==
    [q EXCEPT ![s] = Append(Append(@, instance_id), instance_id)]

\* sqs.send_message of {session_id, instance_id} to the setup queue
_enqueue_session_creation_task(q, s, instance_id) ==
    [q EXCEPT ![s] = Append(@, instance_id)]

\* sqs.send_message of {session_id} to the termination queue
_enqueue_session_termination_task(q, s) == [q EXCEPT ![s] = @ + 1]

CreateOutcomes ==
    {"ok", "quota", "provision_error", "session_put_failed", "ping_put_failed",
     "enqueue_failed"}

\* SessionModel.create_session; o names the first call that raises, if any
Mut_create_session_quota_as_500(o) == IF o = "ok" THEN "200" ELSE "500"

\* POST /sessions/{year}: the status the endpoint answers with, by what
\* SessionModel.create_session did (VcpuLimitExceededException is caught first)
create_session_response(o) ==
    IF o = "ok" THEN "200"
    ELSE IF o = "quota" THEN "503"
    ELSE "500"

\* schemas.InstanceInfo as create_instance builds it from the run_instances
\* response: instance_id and instance_type (the type is not modelled); the
\* state, address and public name belong to CompleteInstanceInfo only
InstanceInfo(instance_id) == [instance_id |-> instance_id]

\* the Session object create_session returns: the one it stored, whose instance
\* is the InstanceInfo that create_instance returned
create_session_return(sess, s) ==
    [SK |-> s, instance |-> InstanceInfo(sess[s].instance),
     ssl_configured |-> sess[s].ssl_configured, end_time |-> sess[s].end_time]

create_session ==
    /\ NextSlot \in Focus
    /\ \E o \in CreateOutcomes :
         LET s == NextSlot
             launched == o \notin {"quota", "provision_error"}
             sessionPut == o \in {"ok", "ping_put_failed", "enqueue_failed"}
             pingPut == o \in {"ok", "enqueue_failed"}
         IN  /\ ec2' = IF launched THEN [ec2 EXCEPT ![s] = "pending"] ELSE ec2
             /\ sessions' = IF sessionPut THEN sessions @@ (s :> NewSession(s)) ELSE sessions
             /\ pings' = IF pingPut THEN pings @@ (s :> NewPing(TRUE, now)) ELSE pings
             /\ taskQ' = IF o = "ok"
                         THEN _enqueue_session_creation_task(taskQ, s, InstanceIdOf(s))
                         ELSE taskQ
             /\ lastOp' = Op("create_session", s, o, 1, NoSent,
                             <<create_session_response(o)>>)
    /\ UNCHANGED <<dns, termQ, now, otherVars>>

EndOutcomes == {"ok", "read_error", "flag_failed", "send_failed"}

\* SessionModel.end_session(s) on liveness table p and termination queue q;
\* o names the call that raises, if any
end_session(p, q, s, o) ==
    IF o = "read_error"
    THEN [pings |-> p, termQ |-> q, raised |-> TRUE, sent |-> 0]
    ELSE IF s \notin DOMAIN sessions
    THEN [pings |-> p, termQ |-> q, raised |-> FALSE, sent |-> 0]
    ELSE IF o = "flag_failed"
    THEN [pings |-> p, termQ |-> q, raised |-> TRUE, sent |-> 0]
    ELSE IF o = "send_failed"
    THEN [pings |-> update_scheduled_for_deletion(p, s, TRUE), termQ |-> q,
          raised |-> TRUE, sent |-> 0]
    ELSE [pings |-> update_scheduled_for_deletion(p, s, TRUE),
          termQ |-> _enqueue_session_termination_task(q, s),
          raised |-> FALSE, sent |-> 1]

\* number of consecutive runs of the same operation on the same session, capped
Streak(op, sid) ==
    IF lastOp.op = op /\ lastOp.sid = sid THEN Min(lastOp.seq + 1, 2) ELSE 1

StreakSent(op, sid) ==
    IF lastOp.op = op /\ lastOp.sid = sid THEN lastOp.sent ELSE NoSent

\* POST /sessions/{session_id}/end
EndSession(s) ==
    /\ \E o \in EndOutcomes :
         LET r == end_session(pings, termQ, s, o)
         IN  /\ r.termQ[s] <= MaxQueue
             /\ pings' = r.pings
             /\ termQ' = r.termQ
             /\ lastOp' = Op("end_session", s, IF r.raised THEN "500" ELSE "200",
                             Streak("end_session", s),
                             [StreakSent("end_session", s) EXCEPT ![s] = @ + r.sent],
                             <<>>)
    /\ UNCHANGED <<sessions, ec2, dns, taskQ, now, otherVars>>

\* GET /sessions/{session_id}: the HTTPException(404) raised inside the try is
\* caught by its own "except Exception" and leaves as a 500
GetSession(s) ==
    /\ \E read \in {"ok", "read_error"}, api \in {"ok", "error"}, write \in {"ok", "error"} :
         LET item == get_session_by_id(s, read, api)
         IN  IF item.found /\ write = "ok"
             THEN /\ pings' = update_last_accessed(pings, s, TRUE, now)
                  /\ lastOp' = Op("get_session", s, "200", 1, NoSent, <<>>)
             ELSE /\ pings' = pings
                  /\ lastOp' = Op("get_session", s, "500", 1, NoSent, <<>>)
    /\ UNCHANGED <<sessions, ec2, dns, taskQ, termQ, now, otherVars>>

\* GET /sessions/{session_id}/ping
GetPing(s) ==
    /\ \E read \in {"ok", "read_error"}, write \in {"ok", "error"} :
         IF read = "ok" /\ s \in DOMAIN pings /\ pings[s].valid /\ write = "ok"
         THEN /\ pings' = update_last_accessed(pings, s, pings[s].instance_active, now)
              /\ lastOp' = Op("get_ping", s, "200", 1, NoSent, <<>>)
         ELSE /\ pings' = pings
              /\ lastOp' = Op("get_ping", s, "500", 1, NoSent, <<>>)
    /\ UNCHANGED <<sessions, ec2, dns, taskQ, termQ, now, otherVars>>


\* GET /sessions/{session_id}/ping up to the return of get_item_by_id (line
\* 143): the item is held by the request
get_ping_read(s) ==
    /\ inflight.ping[s] = None
    /\ \E read \in {"ok", "read_error"} :
         IF read = "ok" /\ s \in DOMAIN pings /\ pings[s].valid
         THEN /\ inflight' = [inflight EXCEPT !.ping[s] = <<pings[s].instance_active>>]
              /\ lastOp' = Op("get_ping_read", s, "item", 1, NoSent, <<>>)
         ELSE /\ inflight' = inflight
              /\ lastOp' = Op("get_ping_read", s, "500", 1, NoSent, <<>>)
    /\ UNCHANGED <<sessions, pings, ec2, dns, taskQ, termQ, now, scanned, dev,
                   recordings, videos, tmp, bucket, catalog, recorder>>

\* the same request from line 145 on: update_last_accessed with the
\* instance_active of the item that was read
get_ping_write(s) ==
    /\ inflight.ping[s] # None
    /\ inflight' = [inflight EXCEPT !.ping[s] = None]
    /\ \E write \in {"ok", "error"} :
         IF write = "ok" /\ PingReadable(pings, s)
         THEN /\ pings' = update_last_accessed(pings, s, inflight.ping[s][1], now)
              /\ lastOp' = Op("get_ping", s, "200", 1, NoSent, <<>>)
         ELSE /\ pings' = pings
              /\ lastOp' = Op("get_ping", s, "500", 1, NoSent, <<>>)
    /\ UNCHANGED <<sessions, ec2, dns, taskQ, termQ, now, scanned, dev,
                   recordings, videos, tmp, bucket, catalog, recorder>>

-----------------------------------------------------------------------------
(* Inactivity sweep (inactive_session_cleanup_handler.handler) *)

\* per selected session: its lookup gives None, or end_session runs and either
\* returns, raises before the flag is written, or raises after it
SweepOutcomes == {"ok", "lookup_failed", "flag_failed", "send_failed"}

\* get_session_by_id(ping.SK) inside get_inactive_sessions gives None
LookupIsNone(k, o) == o[k] = "lookup_failed" \/ k \notin DOMAIN sessions

\* the "for session in inactive_sessions" loop from position i on: a None entry
\* raises inside the except clause's own log line (session.SK) and leaves the loop
\* acc.called lists the sessions end_session was called for; the observation's
\* log is that list followed by the None entries
RECURSIVE SweepLoop(_, _, _, _)
SweepLoop(list, i, o, acc) ==
    IF i > Len(list) THEN acc
    ELSE IF LookupIsNone(list[i], o) THEN [acc EXCEPT !.raised = TRUE]
    ELSE LET k == list[i]
             r == end_session(acc.pings, acc.termQ, k,
                              IF o[k] = "lookup_failed" THEN "ok" ELSE o[k])
         IN  SweepLoop(list, i + 1, o,
                       [pings |-> r.pings, termQ |-> r.termQ, raised |-> FALSE,
                        sent |-> [acc.sent EXCEPT ![k] = @ + r.sent],
                        called |-> Append(acc.called, k)])

\* the entries of get_inactive_sessions' list that are None, by the id of
\* their liveness record, written -k to tell them from the sessions called
NoneEntries(list, o) == SortedSeq({0 - k : k \in {j \in Range(list) : LookupIsNone(j, o)}})

inactive_session_cleanup_handler ==
    /\ \E pageSize \in PageSizes, scan \in {"ok", "error"} :
         LET inactive == IF scan = "ok"
                         THEN get_inactive_session_pings(pings, now, pageSize)
                         ELSE <<>>
         IN  \E o \in [Range(inactive) -> SweepOutcomes] :
               LET r == SweepLoop(inactive, 1, o,
                                  [pings |-> pings, termQ |-> termQ, raised |-> FALSE,
                                   sent |-> StreakSent("sweep", 0), called |-> <<>>])
               IN  /\ \A s \in Sessions : r.termQ[s] <= MaxQueue
                   /\ pings' = r.pings
                   /\ termQ' = r.termQ
                   /\ lastOp' = Op("sweep", 0,
                                   IF scan = "error" THEN "scan_raised"
                                   ELSE IF r.raised THEN "raised" ELSE "ok",
                                   Streak("sweep", 0), r.sent,
                                   r.called \o NoneEntries(inactive, o))
    /\ UNCHANGED <<sessions, ec2, dns, taskQ, now, otherVars>>

-----------------------------------------------------------------------------
(* Termination queue consumer (session_termination_handler.handler) *)

\* Session.domain_name, read by the application manager and declared in no
\* source file: the session's domain, SessionModel.domain_name(session id);
\* here the slot whose A record it is
Session_domain_name(s) == s

\* requests.request(url = https://<domain>/api/v1..., verify = True) can be
\* answered only while the instance runs, the domain resolves to it and the
\* device presents a certificate for the domain
DeviceAccepts(s) ==
    /\ ec2[s] = "running"
    /\ dns[Session_domain_name(s)] = IpOf(s)
    /\ dev[s].cert

\* genymotion_request: the outcomes of one request (returns, or raises on a
\* timeout, a connection or TLS error, or an HTTP error status)
genymotion_request(s) == IF DeviceAccepts(s) THEN {"ok", "failed"} ELSE {"failed"}

\* cleanup_session / upload_all_recordings_to_s3 as called by the handler
DeviceOutcomes(s) == genymotion_request(s)

StatusOutcomes == {"ok", "end_time_failed", "unschedule_failed"}

\* update_session_status: SET end_time, then SET scheduled_for_deletion = False
update_session_status(sess, p, s, st) ==
    [sessions |-> IF st = "end_time_failed" THEN sess
                  ELSE [sess EXCEPT ![Session_session_id(s)].end_time = IsoFormat(now)],
     pings |-> IF st = "ok"
               THEN update_scheduled_for_deletion(p, Session_session_id(s), FALSE)
               ELSE p,
     log |-> IF st = "end_time_failed" THEN <<"status:raised">>
             ELSE IF st = "unschedule_failed" THEN <<"end_time", "status:raised">>
             ELSE <<"end_time", "unschedule">>]

\* delete_dns_record: a None address fails the request validation, a record that
\* does not match is InvalidChangeBatch; every error is logged, none raised
delete_dns_record(s, instance_ip, r53) ==
    IF instance_ip = NoIp THEN [dns |-> dns, log |-> "dns:invalid"]
    ELSE IF r53 = "error" THEN [dns |-> dns, log |-> "dns:error"]
    ELSE IF dns[s] = instance_ip THEN [dns |-> [dns EXCEPT ![s] = 0], log |-> "dns:deleted"]
    ELSE [dns |-> dns, log |-> "dns:absent"]

Mut_ReleaseOnlyAfterCleanDevice(cleanup, upload) == cleanup = "ok" /\ upload = "ok"

\* lines 53-63: cleanup and upload each sit in their own try/except, so the
\* handler goes on to the release steps whatever they did
ReleaseFollows(cleanup, upload) == TRUE

session_termination_handler(s) ==
    /\ termQ[s] > 0
    /\ termQ' = [termQ EXCEPT ![s] = @ - 1]
    /\ \E read \in {"ok", "read_error"}, api \in {"ok", "error"} :
         LET session == get_session_by_id(s, read, api)
         IN  IF ~session.found
             THEN \* update_session_status(None, ...) raises; caught at line 83
                  /\ lastOp' = Op("session_termination", s, "ok", 1, NoSent,
                                  <<"session:none", "status:raised">>)
                  /\ UNCHANGED <<sessions, pings, ec2, dns>>
             ELSE IF session.instance = NoInstance
             THEN \E st \in StatusOutcomes :
                    LET u == update_session_status(sessions, pings, s, st)
                    IN  /\ sessions' = u.sessions
                        /\ pings' = u.pings
                        /\ lastOp' = Op("session_termination", s, "ok", 1, NoSent,
                                        <<"instance:none">> \o u.log)
                        /\ UNCHANGED <<ec2, dns>>
             ELSE \E cleanup \in DeviceOutcomes(s), upload \in DeviceOutcomes(s),
                     term \in {"ok", "error"}, active \in {"ok", "error"},
                     r53 \in {"ok", "error"}, st \in StatusOutcomes :
                    LET release == ReleaseFollows(cleanup, upload)
                        marked == release /\ term = "ok" /\ active = "ok"
                        p1 == IF marked THEN update_instance_active(pings, s, FALSE)
                              ELSE pings
                        d == delete_dns_record(s, session.instance.instance_ip, r53)
                        u == update_session_status(sessions, p1, s, st)
                    IN  /\ ec2' = IF release /\ term = "ok"
                                  THEN terminate_instance(ec2, s) ELSE ec2
                        /\ dns' = IF release THEN d.dns ELSE dns
                        /\ sessions' = IF release THEN u.sessions ELSE sessions
                        /\ pings' = IF release THEN u.pings ELSE pings
                        /\ lastOp' = Op("session_termination", s, "ok", 1, NoSent,
                                        <<"cleanup:" \o cleanup, "upload:" \o upload>>
                                        \o (IF release
                                            THEN <<"terminate:" \o term>>
                                                 \o (IF marked THEN <<"inactive">> ELSE <<>>)
                                                 \o <<d.log>> \o u.log
                                            ELSE <<>>))
    /\ UNCHANGED <<taskQ, now, otherVars>>


-----------------------------------------------------------------------------
(* Setup queue consumer (tasks_handler.handler) *)

\* wait_for_instance_running(instance_id, timeout = 300), in seconds
wait_timeout == 300

\* time.sleep(5) between two polls
poll_sleep == 5

\* the "while time.time() - start_time < timeout" loop of
\* wait_for_instance_running for the instance of s, elapsed seconds after its
\* start and after the given number of polls: it returns the first
\* get_instance_info that is running with an address, otherwise sleeps and polls
\* again, and returns None once the timeout has passed
RECURSIVE WaitLoop(_, _, _)
WaitLoop(s, elapsed, polls) ==
    IF elapsed < wait_timeout
    THEN LET instance_info == get_instance_info(s, "ok")
         IN  IF /\ instance_info # NoInstance
                /\ instance_info.instance_state = "running"
                /\ instance_info.instance_ip # NoIp
             THEN [instance_info |-> instance_info, polls |-> polls + 1]
             ELSE WaitLoop(s, elapsed + poll_sleep, polls + 1)
    ELSE [instance_info |-> NoInstance, polls |-> polls]

\* a wait that hands the handler whatever the provider reported last
Mut_wait_returns_last_info(instance_id) ==
    LET s == CHOOSE k \in Sessions : InstanceIdOf(k) = instance_id
    IN  [CompleteInstanceInfo(s) EXCEPT !.instance_ip = IpOf(s)]

\* wait_for_instance_running: the polled instance is running with an address
\* before the timeout, or None
wait_for_instance_running(instance_id) ==
    LET s == CHOOSE k \in Sessions : InstanceIdOf(k) = instance_id
    IN  WaitLoop(s, 0, 0).instance_info

\* create_dns_record: UPSERT of the A record; an error is logged, not raised
create_dns_record(d, s, instance_ip, r53) ==
    IF r53 = "ok" THEN [d EXCEPT ![s] = instance_ip] ELSE d

\* SessionModel.wait_for_genymotion_api is called at tasks_handler.py:36 and is
\* defined in no source file: a bounded wait that returns or raises
wait_for_genymotion_api(o) == o = "ok"

\* custom_requests(total_retries = 9, ...) in configure_instance_certificate
total_retries == 9

\* what one attempt of the POST can meet: a connection or read error, a status
\* of the force list (429, 500, 502, 503, 504), or an answer that is final
PostFailures == {"connection", "status"}
PostAnswers == {"2xx", "404", "other"}

\* the POST through the session of custom_requests: its first `failing`
\* attempts fail in the given way and the next is answered `final`; a failed
\* attempt is retried while fewer than total_retries retries have been made,
\* after which a connection error is raised and a forced status is returned
\* (raise_on_status = False)
RECURSIVE custom_requests_post(_, _, _, _)

\* a session that retries for as long as attempts fail
Mut_custom_requests_post_unbounded(failing, kind, final, attempt) ==
    IF attempt > failing
    THEN [response |-> final, attempts |-> attempt]
    ELSE custom_requests_post(failing, kind, final, attempt + 1)

custom_requests_post(failing, kind, final, attempt) ==
    IF attempt > failing
    THEN [response |-> final, attempts |-> attempt]
    ELSE IF attempt - 1 < total_retries
    THEN custom_requests_post(failing, kind, final, attempt + 1)
    ELSE [response |-> IF kind = "connection" THEN "raised" ELSE "status",
          attempts |-> attempt]

\* the runs of the POST: up to one failing attempt more than the retries allow
PostRuns ==
    {custom_requests_post(failing, kind, final, 1) :
        failing \in 0 .. total_retries + 1, kind \in PostFailures, final \in PostAnswers}

\* the outcome of configure_instance_certificate by the POST's response, the
\* shell fallback after a 404 and the update of the Session item
certificate_outcome(response, shell, update) ==
    IF response = "2xx"
    THEN (IF update = "ok" THEN "2xx" ELSE "update_failed")
    ELSE IF response = "404"
    THEN (IF shell # "ok" THEN "404_shell_failed"
          ELSE IF update = "ok" THEN "404_shell_ok" ELSE "update_failed")
    ELSE "failed"

CertOutcomes == {"2xx", "404_shell_ok", "404_shell_failed", "failed", "update_failed"}

\* a negotiation that takes every 404 answer for a configured certificate
Mut_configure_certificate_on_any_404(sess, s, o) ==
    IF o \in {"2xx", "404_shell_ok", "404_shell_failed"} /\ s \in DOMAIN sess
    THEN [sess EXCEPT ![s].ssl_configured = TRUE]
    ELSE sess

\* configure_instance_certificate: the session's ssl_configured after the call
configure_instance_certificate(sess, s, o) ==
    IF o \in {"2xx", "404_shell_ok"} /\ s \in DOMAIN sess
    THEN [sess EXCEPT ![s].ssl_configured = TRUE]
    ELSE sess

\* the device took the certificate request (POST answered 2xx, or the shell
\* fallback started the ACME service), whatever the table update did after it
CertificateInstalled(o) == o \in {"2xx", "404_shell_ok", "update_failed"}

\* tasks_handler.py lines 32-42, with the instance_info the wait returned: the
\* DNS record, the wait for the device API, the certificate
configure_session(s, instance_info) ==
    \E r53 \in {"ok", "error"}, api \in {"ok", "raised"}, post \in PostRuns,
       shell \in {"ok", "failed"}, update \in {"ok", "failed"} :
        LET cert == certificate_outcome(post.response, shell, update)
        IN
          /\ dns' = create_dns_record(dns, s, instance_info.instance_ip, r53)
          /\ sessions' = IF wait_for_genymotion_api(api)
                         THEN configure_instance_certificate(sessions, s, cert)
                         ELSE sessions
          /\ dev' = IF wait_for_genymotion_api(api) /\ CertificateInstalled(cert)
                    THEN [dev EXCEPT ![s].cert = TRUE]
                    ELSE dev
          /\ lastOp' = Op("setup", s, "ok",
                          IF wait_for_genymotion_api(api) THEN post.attempts ELSE 1,
                          NoSent,
                          <<"dns:" \o r53>>
                          \o (IF wait_for_genymotion_api(api)
                              THEN <<"cert:" \o cert>> ELSE <<"api:raised">>))

tasks_handler(s) ==
    /\ taskQ[s] # <<>>
    /\ taskQ' = [taskQ EXCEPT ![s] = Tail(@)]
    /\ LET instance_info == wait_for_instance_running(Head(taskQ[s]))
       IN  IF instance_info = NoInstance
           THEN /\ lastOp' = Op("setup", s, "ok", 1, NoSent, <<"wait:timeout">>)
                /\ UNCHANGED <<sessions, dns, dev>>
           ELSE configure_session(s, instance_info)
    /\ UNCHANGED <<pings, ec2, termQ, now, scanned, mediaVars>>

\* the handler up to the return of wait_for_instance_running (line 27): the
\* message is received and the instance_info kept for the calls that follow
tasks_handler_wait(s) ==
    /\ taskQ[s] # <<>>
    /\ inflight.setup[s] = NoInstance
    /\ taskQ' = [taskQ EXCEPT ![s] = Tail(@)]
    /\ LET instance_info == wait_for_instance_running(Head(taskQ[s]))
       IN  /\ inflight' = [inflight EXCEPT !.setup[s] = instance_info]
           /\ lastOp' = Op("setup_wait", s, "ok", 1, NoSent,
                           IF instance_info = NoInstance
                           THEN <<"wait:timeout">> ELSE <<"wait:running">>)
    /\ UNCHANGED <<sessions, pings, ec2, dns, termQ, now, scanned, dev,
                   recordings, videos, tmp, bucket, catalog, recorder>>

\* the handler from line 32 on, for a wait that returned an instance_info
tasks_handler_configure(s) ==
    /\ inflight.setup[s] # NoInstance
    /\ configure_session(s, inflight.setup[s])
    /\ inflight' = [inflight EXCEPT !.setup[s] = NoInstance]
    /\ UNCHANGED <<pings, ec2, taskQ, termQ, now, scanned,
                   recordings, videos, tmp, bucket, catalog, recorder>>

-----------------------------------------------------------------------------
(* Device control (application_manager.ApplicationManager) *)

\* _get_address_and_instance_id: the stored Session item and its stored
\* instance are all that is looked at
_get_address_and_instance_id(s) ==
    IF s \in DOMAIN sessions /\ sessions[s].instance # 0
    THEN <<Session_domain_name(s), sessions[s].instance>>
    ELSE None

\* set_internet_access from the address resolution on, applied to the device
\* d: elevation in a try/except, the six data/WiFi commands outside any try,
\* revocation in a try/except after them
internet_access(d, enabled, elevate, toggles, revoke) ==
    LET root == IF elevate = "ok" THEN 3 ELSE d.root_access
        net == IF toggles = "ok" /\ root = 3 THEN enabled ELSE d.net
        revoked == toggles = "ok" /\ revoke = "ok"
    IN  [dev |-> [d EXCEPT !.root_access = IF revoked THEN 0 ELSE root, !.net = net],
         raised |-> toggles # "ok",
         log |-> <<"elevate:" \o elevate, "toggles:" \o toggles>>
                 \o (IF toggles = "ok" THEN <<"revoke:" \o revoke>> ELSE <<>>)]

\* POST /sessions/{session_id}/internet
set_internet_access(s, enabled) ==
    /\ IF _get_address_and_instance_id(s) = None
       THEN /\ dev' = dev
            /\ lastOp' = Op("set_internet_access", s, "200", 1, NoSent, <<>>)
       ELSE \E elevate \in genymotion_request(s), toggles \in genymotion_request(s),
               revoke \in genymotion_request(s) :
              LET r == internet_access(dev[s], enabled, elevate, toggles, revoke)
              IN  /\ dev' = [dev EXCEPT ![s] = r.dev]
                  /\ lastOp' = Op("set_internet_access", s,
                                  IF r.raised THEN "500" ELSE "200", 1, NoSent, r.log)
    /\ UNCHANGED <<sessions, pings, ec2, dns, taskQ, termQ, now, scanned, mediaVars>>

\* set_kiosk_mode from the address resolution on: one request in a try/except
kiosk_mode(d, enabled, kiosk) ==
    [dev |-> IF kiosk = "ok" THEN [d EXCEPT !.kiosk = enabled] ELSE d,
     raised |-> FALSE,
     log |-> <<"kiosk:" \o kiosk>>]

\* POST /sessions/{session_id}/kiosk
set_kiosk_mode(s, enabled) ==
    /\ IF _get_address_and_instance_id(s) = None
       THEN /\ dev' = dev
            /\ lastOp' = Op("set_kiosk_mode", s, "200", 1, NoSent, <<>>)
       ELSE \E kiosk \in genymotion_request(s) :
              LET r == kiosk_mode(dev[s], enabled, kiosk)
              IN  /\ dev' = [dev EXCEPT ![s] = r.dev]
                  /\ lastOp' = Op("set_kiosk_mode", s, "200", 1, NoSent, r.log)
    /\ UNCHANGED <<sessions, pings, ec2, dns, taskQ, termQ, now, scanned, mediaVars>>

-----------------------------------------------------------------------------
(* Recording upload (ApplicationManager.upload_all_recordings_to_s3) *)

\* a name in /sdcard/recordings: whether it has the form recording_*.mp4, and
\* the pieces of * between the underscores
RecordingName(body) == [recording |-> TRUE, body |-> body]
ControlFile == [recording |-> FALSE, body |-> <<>>]

\* _list_recording_files: the names that start with recording_ and end in .mp4
RECURSIVE _list_recording_files(_)
_list_recording_files(filenames) ==
    IF filenames = <<>> THEN <<>>
    ELSE (IF Head(filenames).recording THEN <<Head(filenames)>> ELSE <<>>)
         \o _list_recording_files(Tail(filenames))

\* attribute names DynamoDB refuses unescaped in an expression (those of its
\* reserved words that the Video item uses)
ReservedWords == {"size", "duration", "timestamp"}

\* VideoModel.create_video: put_item of a Video with no size yet
create_video(v, video_id, game_id) ==
    IF video_id \in DOMAIN v
    THEN [v EXCEPT ![video_id] = [game_id |-> game_id, size |-> None]]
    ELSE v @@ (video_id :> [game_id |-> game_id, size |-> None])

\* os.path.getsize of a pulled segment: some positive number of bytes
getsize(local_path) == 1

\* VideoModel.update_video_size_and_duration with duration None:
\* update_item(UpdateExpression = "SET size = :size"); any error is re-raised
update_video_size_and_duration(v, video_id, size) ==
    IF "size" \in ReservedWords
    THEN [videos |-> v, raised |-> TRUE]
    ELSE [videos |-> IF video_id \in DOMAIN v
                     THEN [v EXCEPT ![video_id].size = size]
                     ELSE v @@ (video_id :> [game_id |-> None, size |-> size]),
          raised |-> FALSE]

FileOutcomes == {"ok", "create_failed", "pull_failed", "put_failed"}

\* the body of the "for file_path in file_list" loop for one file
UploadOne(acc, file, o) ==
    LET parts == file.body
    IN  IF Len(parts) # 3
        THEN [acc EXCEPT !.log = Append(@, "skipped"), !.failed = FALSE]
        ELSE
        LET game_id == parts[1]
            video_id == <<parts[2], parts[3]>>
            created == create_video(acc.videos, video_id, game_id)
            pulled == acc.tmp \cup {video_id}
            put == acc.bucket \cup {video_id}
            sized == update_video_size_and_duration(created, video_id, getsize(video_id))
        IN  IF o = "create_failed"
            THEN [acc EXCEPT !.log = Append(@, "failed:create"), !.failed = TRUE]
            ELSE IF o = "pull_failed"
            THEN [acc EXCEPT !.videos = created,
                             !.log = Append(@, "failed:pull"), !.failed = TRUE]
            ELSE IF o = "put_failed"
            THEN [acc EXCEPT !.videos = created, !.tmp = pulled,
                             !.log = Append(@, "failed:put"), !.failed = TRUE]
            ELSE IF sized.raised
            THEN [acc EXCEPT !.videos = created, !.tmp = pulled, !.bucket = put,
                             !.log = Append(@, "failed:size"), !.failed = TRUE]
            ELSE [acc EXCEPT !.videos = sized.videos, !.tmp = pulled \ {video_id},
                             !.bucket = put,
                             !.log = Append(@, "uploaded"), !.failed = FALSE]

Mut_FileErrorAborts(e) == FALSE

\* lines 452-454: "except Exception ... continue" around one file
FileErrorIsSkipped(e) == TRUE

RECURSIVE UploadLoop(_, _, _, _)
UploadLoop(file_list, i, o, acc) ==
    IF i > Len(file_list) THEN acc
    ELSE LET r == UploadOne(acc, file_list[i], o[i])
         IN  IF r.failed /\ ~FileErrorIsSkipped(r.log[Len(r.log)])
             THEN [r EXCEPT !.raised = TRUE]
             ELSE UploadLoop(file_list, i + 1, o, r)

\* POST /sessions/{session_id}/upload-recordings
upload_all_recordings_to_s3(s) ==
    /\ IF _get_address_and_instance_id(s) = None
       THEN /\ UNCHANGED <<videos, tmp, bucket>>
            /\ lastOp' = Op("upload_recordings", s, "200", 1, NoSent, <<>>)
       ELSE \E list \in genymotion_request(s) :
              IF list = "failed"
              THEN /\ UNCHANGED <<videos, tmp, bucket>>
                   /\ lastOp' = Op("upload_recordings", s, "500", 1, NoSent,
                                   <<"list:failed">>)
              ELSE LET file_list == _list_recording_files(recordings)
                   IN  \E o \in [DOMAIN file_list -> FileOutcomes] :
                         LET r == UploadLoop(file_list, 1, o,
                                             [videos |-> videos, tmp |-> tmp,
                                              bucket |-> bucket, log |-> <<"list:ok">>,
                                              failed |-> FALSE, raised |-> FALSE])
                         IN  /\ videos' = r.videos
                             /\ tmp' = r.tmp
                             /\ bucket' = r.bucket
                             /\ lastOp' = Op("upload_recordings", s,
                                             IF r.raised THEN "500" ELSE "200",
                                             1, NoSent, r.log)
    /\ UNCHANGED <<sessions, pings, ec2, dns, taskQ, termQ, now, scanned, dev,
                   recordings, catalog, recorder, inflight>>

-----------------------------------------------------------------------------
(* Catalog queries (DynamoDBModel.get_all_items, query_by_gsi) and the
   recommendations built on them *)

\* the number of items one response of table.query holds (its size limit)
QueryPage == 2

\* items of a partition or an index in the order of their sort key
RECURSIVE SortedItems(_)
SortedItems(S) ==
    IF S = {} THEN <<>>
    ELSE LET m == CHOOSE x \in S : \A y \in S \ {x} : StrLt(x, y)
         IN  <<m>> \o SortedItems(S \ {m})

\* table.query called once, response.get("Items"): the first page of the
\* matching items; a LastEvaluatedKey in the response is not looked at
table_query(items) == SubSeq(items, 1, Min(Len(items), QueryPage))

\* DynamoDBModel.get_all_items on the AMI partition
list_all_amis(c) == table_query(c.amis)

\* GameModel.get_games_by_ami_id: query_by_gsi(GSI1, "AMI", ami_id)
get_games_by_ami_id(c, ami_id) ==
    table_query(SortedSeq({g \in DOMAIN c.games : c.games[g] = ami_id}))

\* VideoModel.get_videos_by_game_id: query_by_gsi(GSI2, "GAME", game_id)
get_videos_by_game_id(v, game_id) ==
    table_query(SortedItems({x \in DOMAIN v : v[x].game_id = game_id}))

\* AMIModel.get_ami_by_id, GameModel.get_item_by_id: the item, or None
get_ami_by_id(c, ami_id) == IF ami_id \in Range(c.amis) THEN <<ami_id>> ELSE None
get_game_by_id(c, game_id) == IF game_id \in DOMAIN c.games THEN <<game_id>> ELSE None

\* min(counts, key=counts.get) on a dict filled in the order of keys: the first
\* key that carries the least count
min_by_count(keys, counts) ==
    keys[CHOOSE i \in DOMAIN keys :
            /\ \A j \in DOMAIN keys : counts[keys[i]] <= counts[keys[j]]
            /\ \A j \in 1 .. i - 1 : counts[keys[j]] > counts[keys[i]]]

\* total_videos of get_recommended_ami: len(videos) summed over the games
RECURSIVE total_videos(_, _)
total_videos(v, games) ==
    IF games = <<>> THEN 0
    ELSE Len(get_videos_by_game_id(v, Head(games))) + total_videos(v, Tail(games))

\* AMIModel.get_recommended_ami
get_recommended_ami(c, v) ==
    LET amis == list_all_amis(c)
    IN  IF amis = <<>> THEN None
        ELSE LET ami_video_counts ==
                     [a \in Range(amis) |-> total_videos(v, get_games_by_ami_id(c, a))]
             IN  get_ami_by_id(c, min_by_count(amis, ami_video_counts))

\* GameModel.get_recommended_game_for_ami
get_recommended_game_for_ami(c, v, ami_id) ==
    LET games == get_games_by_ami_id(c, ami_id)
    IN  IF games = <<>> THEN None
        ELSE LET game_video_counts ==
                     [g \in Range(games) |-> Len(get_videos_by_game_id(v, g))]
             IN  get_game_by_id(c, min_by_count(games, game_video_counts))

\* GET /amis/recommended
recommended_ami ==
    /\ lastOp' = Op("get_recommended_ami", 0, get_recommended_ami(catalog, videos),
                    1, NoSent, <<>>)
    /\ UNCHANGED <<sessions, pings, ec2, dns, taskQ, termQ, now, scanned, dev, mediaVars>>

\* GET /games/ami/{ami_id}/recommended
recommended_game(ami_id) ==
    /\ lastOp' = Op("get_recommended_game_for_ami", ami_id,
                    get_recommended_game_for_ami(catalog, videos, ami_id),
                    1, NoSent, <<>>)
    /\ UNCHANGED <<sessions, pings, ec2, dns, taskQ, termQ, now, scanned, dev, mediaVars>>

\* POST /videos: a Video item for the given game is put under the given id
post_video(video_id, game_id) ==
    /\ videos' = create_video(videos, video_id, game_id)
    /\ videos' # videos
    /\ lastOp' = Op("create_video", game_id, <<>>, 1, NoSent, <<>>)
    /\ UNCHANGED <<sessions, pings, ec2, dns, taskQ, termQ, now, scanned, dev,
                   recordings, tmp, bucket, catalog, recorder, inflight>>

-----------------------------------------------------------------------------
(* Game start and stop (ApplicationManager.start_game_in_session,
   stop_game_in_session).  A recording step is the outcome of its requests
   here; the script it launches and the control file are followed command by
   command in the screen recording section. *)

\* a step that catches its own errors: it never raises
swallowed(name, o) == [raised |-> FALSE, log |-> <<name \o ":" \o o>>]

\* a step outside any try of its own: its error leaves the sequence
unguarded(name, o) == [raised |-> o # "ok", log |-> <<name \o ":" \o o>>]

\* _set_virtual_keyboard: execute_shell_command(address, instance_id, command,
\* logger, timeout=5) names a parameter execute_shell_command does not have;
\* the TypeError is caught by the step's own except and no request is made
_set_virtual_keyboard(enabled) == [raised |-> FALSE, log |-> <<"keyboard:not_issued">>]

\* _launch_application: the monkey command; when it raises, the certificate is
\* negotiated again and the command repeated outside any try
_launch_application(launch, cert, relaunch) ==
    IF launch = "ok"
    THEN [raised |-> FALSE, log |-> <<"launch:ok">>, cert |-> "none"]
    ELSE [raised |-> relaunch # "ok",
          log |-> <<"launch:failed", "cert:" \o cert, "relaunch:" \o relaunch>>,
          cert |-> cert]

StartSteps == {"orientation", "elevate", "toggles", "revoke", "launch", "relaunch",
               "kiosk", "record"}

\* the steps of a sequence one after another from the i-th on: a step that
\* raises ends the sequence
RECURSIVE RunSteps(_, _, _)
RunSteps(steps, i, acc) ==
    IF i > Len(steps) THEN acc
    ELSE IF steps[i].raised
    THEN [raised |-> TRUE, log |-> acc.log \o steps[i].log]
    ELSE RunSteps(steps, i + 1, [raised |-> FALSE, log |-> acc.log \o steps[i].log])

\* the body of the try of start_game_in_session on device d; o gives each
\* request's outcome, c that of the certificate negotiation of a relaunch
start_game_steps(d, wifi_enabled, o, c) ==
    LET net == internet_access(d, wifi_enabled, o["elevate"], o["toggles"], o["revoke"])
        kiosk == kiosk_mode(net.dev, TRUE, o["kiosk"])
        launch == _launch_application(o["launch"], c, o["relaunch"])
        run == RunSteps(<<swallowed("orientation", o["orientation"]),
                          _set_virtual_keyboard(TRUE),
                          [raised |-> net.raised, log |-> net.log],
                          [raised |-> launch.raised, log |-> launch.log],
                          [raised |-> FALSE, log |-> kiosk.log],
                          unguarded("record", o["record"])>>,
                        1, [raised |-> FALSE, log |-> <<>>])
        reached(entry) == \E i \in DOMAIN run.log : run.log[i] = entry
    IN  [dev |-> IF reached("kiosk:" \o o["kiosk"]) THEN kiosk.dev ELSE net.dev,
         cert |-> IF reached("launch:failed") THEN c ELSE "none",
         raised |-> run.raised,
         log |-> run.log]

\* POST /sessions/{session_id}/games/{game_id}/start; wifi_enabled is the
\* preference of the Game item; the observation keeps the game id in seq
start_game_in_session(s, game_id) ==
    /\ IF get_game_by_id(catalog, game_id) = None \/ _get_address_and_instance_id(s) = None
       THEN /\ lastOp' = Op("start_game", s, "200", game_id, NoSent, <<>>)
            /\ UNCHANGED <<dev, sessions>>
       ELSE \E wifi_enabled \in BOOLEAN, o \in [StartSteps -> genymotion_request(s)],
               c \in {"2xx", "failed"} :
              LET r == start_game_steps(dev[s], wifi_enabled, o, c)
              IN  /\ dev' = [dev EXCEPT ![s] = r.dev]
                  /\ sessions' = IF r.cert = "none" THEN sessions
                                 ELSE configure_instance_certificate(sessions, s, r.cert)
                  /\ lastOp' = Op("start_game", s, IF r.raised THEN "500" ELSE "200",
                                  game_id, NoSent, r.log)
    /\ UNCHANGED <<pings, ec2, dns, taskQ, termQ, now, scanned, mediaVars>>

StopSteps == {"stop_recording", "stop_apps", "kiosk", "elevate", "toggles", "revoke",
              "orientation"}

\* kiosk mode left as it is by the stop sequence
Mut_stop_game_keeps_kiosk(d, o) ==
    LET net == internet_access(d, TRUE, o["elevate"], o["toggles"], o["revoke"])
        run == RunSteps(<<unguarded("stop_recording", o["stop_recording"]),
                          swallowed("stop_apps", o["stop_apps"]),
                          [raised |-> FALSE, log |-> <<"kiosk:" \o o["kiosk"]>>],
                          [raised |-> net.raised, log |-> net.log],
                          swallowed("orientation", o["orientation"])>>,
                        1, [raised |-> FALSE, log |-> <<>>])
    IN  [dev |-> IF o["stop_recording"] = "ok" THEN net.dev ELSE d,
         raised |-> run.raised,
         log |-> run.log]

\* the body of the try of stop_game_in_session on device d
stop_game_steps(d, o) ==
    LET kiosk == kiosk_mode(d, FALSE, o["kiosk"])
        net == internet_access(kiosk.dev, TRUE, o["elevate"], o["toggles"], o["revoke"])
        run == RunSteps(<<unguarded("stop_recording", o["stop_recording"]),
                          swallowed("stop_apps", o["stop_apps"]),
                          [raised |-> FALSE, log |-> kiosk.log],
                          [raised |-> net.raised, log |-> net.log],
                          swallowed("orientation", o["orientation"])>>,
                        1, [raised |-> FALSE, log |-> <<>>])
    IN  [dev |-> IF o["stop_recording"] = "ok" THEN net.dev ELSE d,
         raised |-> run.raised,
         log |-> run.log]

\* POST /sessions/{session_id}/games/stop
stop_game_in_session(s) ==
    /\ IF _get_address_and_instance_id(s) = None
       THEN /\ dev' = dev
            /\ lastOp' = Op("stop_game", s, "200", 1, NoSent, <<>>)
       ELSE \E o \in [StopSteps -> genymotion_request(s)] :
              LET r == stop_game_steps(dev[s], o)
              IN  /\ dev' = [dev EXCEPT ![s] = r.dev]
                  /\ lastOp' = Op("stop_game", s, IF r.raised THEN "500" ELSE "200",
                                  1, NoSent, r.log)
    /\ UNCHANGED <<sessions, pings, ec2, dns, taskQ, termQ, now, scanned, mediaVars>>

-----------------------------------------------------------------------------
(* Screen recording (ApplicationManager._start_screen_recording,
   _stop_screen_recording): the script runs on the device in the background,
   one shell command at a time, while the coordinator sends the three commands
   of a stop one request after another *)

MaxLoops == 2
MaxSegments == 2

recorderVars == <<sessions, pings, ec2, dns, taskQ, termQ, now, scanned, dev,
                  recordings, videos, tmp, bucket, catalog, inflight>>

\* a script launched by "nohup sh -c '...' &": at its first command, no segment
\* recorded; touched = a stop has written the control file since the launch,
\* stopped = such a stop has sent its three commands, after_stop = the launch
\* came right after a completed stop
NewLoop(after_stop) ==
    [pc |-> "if", segments |-> 0, touched |-> FALSE, stopped |-> FALSE,
     after_stop |-> after_stop]

\* _start_screen_recording: one request that launches the script and returns
_start_screen_recording(s) ==
    /\ _get_address_and_instance_id(s) # None
    /\ Len(recorder.loops) < MaxLoops
    /\ \E o \in genymotion_request(s) :
          /\ recorder' =
                IF o = "ok"
                THEN [recorder EXCEPT !.loops =
                        Append(@, NewLoop(lastOp.op = "stop_recording" /\ lastOp.result = "ok"))]
                ELSE recorder
          /\ lastOp' = Op("start_recording", s, IF o = "ok" THEN "ok" ELSE "raised",
                          1, NoSent, <<"script:" \o o>>)
    /\ UNCHANGED recorderVars

\* if [ ! -d dir ]; then mkdir -p dir; elif [ -f flag ]; then rm flag; fi
script_if(i) ==
    /\ i \in DOMAIN recorder.loops
    /\ recorder.loops[i].pc = "if"
    /\ recorder' = [recorder EXCEPT !.dir = TRUE,
                                    !.flag = IF recorder.dir THEN FALSE ELSE @,
                                    !.loops[i].pc = "while"]
    /\ UNCHANGED <<recorderVars, lastOp>>

\* while [ ! -f flag ]: into screenrecord, or out of the loop
script_while(i) ==
    /\ i \in DOMAIN recorder.loops
    /\ recorder.loops[i].pc = "while"
    /\ recorder.flag \/ recorder.loops[i].segments < MaxSegments
    /\ recorder' = [recorder EXCEPT !.loops[i].pc =
                        IF recorder.flag THEN "rm" ELSE "screenrecord"]
    /\ UNCHANGED <<recorderVars, lastOp>>

\* screenrecord --time-limit 180 returns, at its limit or on SIGINT; counter + 1
screenrecord(i) ==
    /\ i \in DOMAIN recorder.loops
    /\ recorder.loops[i].pc = "screenrecord"
    /\ recorder' = [recorder EXCEPT !.loops[i].pc = "while",
                                    !.loops[i].segments = @ + 1]
    /\ UNCHANGED <<recorderVars, lastOp>>

\* rm flag after the loop: the script is over
script_rm(i) ==
    /\ i \in DOMAIN recorder.loops
    /\ recorder.loops[i].pc = "rm"
    /\ recorder' = [recorder EXCEPT !.flag = FALSE, !.loops[i].pc = "done"]
    /\ UNCHANGED <<recorderVars, lastOp>>

\* touch flag: the file is created when its directory exists
touch_control_file(r) ==
    [r EXCEPT !.flag = r.flag \/ r.dir,
              !.loops = [i \in DOMAIN r.loops |-> [r.loops[i] EXCEPT !.touched = TRUE]],
              !.stop = "touched"]

\* a stop that ends without removing the control file
Mut_stop_leaves_control_file(r) ==
    [r EXCEPT !.loops = [i \in DOMAIN r.loops |->
                            [r.loops[i] EXCEPT !.stopped = r.loops[i].touched]],
              !.stop = "idle"]

\* rm flag, a second after the signal
rm_control_file(r) ==
    [r EXCEPT !.flag = FALSE,
              !.loops = [i \in DOMAIN r.loops |->
                            [r.loops[i] EXCEPT !.stopped = r.loops[i].touched]],
              !.stop = "idle"]

\* _stop_screen_recording, one request at a time; a request that fails raises
\* and the commands after it are not sent
_stop_screen_recording(s) ==
    /\ _get_address_and_instance_id(s) # None
    /\ \E o \in genymotion_request(s) :
          /\ recorder' =
                IF o # "ok" THEN [recorder EXCEPT !.stop = "idle"]
                ELSE IF recorder.stop = "idle" THEN touch_control_file(recorder)
                ELSE IF recorder.stop = "touched" THEN [recorder EXCEPT !.stop = "signalled"]
                ELSE rm_control_file(recorder)
          /\ lastOp' = Op("stop_recording", s,
                          IF o # "ok" THEN "raised"
                          ELSE IF recorder.stop = "idle" THEN "touched"
                          ELSE IF recorder.stop = "touched" THEN "signalled"
                          ELSE "ok",
                          1, NoSent,
                          <<(IF recorder.stop = "idle" THEN "touch:"
                             ELSE IF recorder.stop = "touched" THEN "pkill:"
                             ELSE "rm:") \o o>>)
    /\ UNCHANGED recorderVars

-----------------------------------------------------------------------------
(* Session listing (SessionModel.get_all_sessions_with_updated_info) *)

\* InstanceModel.get_instances_info: the provider's view of each instance it
\* knows, None for the others; nothing at all when describe_instances raises
get_instances_info(ids, api) ==
    IF api = "error" THEN << >>
    ELSE [s \in ids |-> IF ec2[s] \in {"none", "gone"} THEN NoInstance
                        ELSE CompleteInstanceInfo(s)]

\* the sessions of the SESSION partition with their instance replaced by the
\* provider's view, and with only_active those whose instance is running or
\* pending
get_all_sessions_with_updated_info(only_active, api) ==
    LET items == table_query(SortedSeq(DOMAIN sessions))
        aws_instances_info == get_instances_info(Range(items), api)
        instance(s) == IF s \in DOMAIN aws_instances_info
                       THEN aws_instances_info[s] ELSE NoInstance
        active(s) == /\ instance(s) # NoInstance
                     /\ instance(s).instance_state \in {"running", "pending"}
    IN  IF only_active THEN SelectSeq(items, active) ELSE items

\* GET /sessions?only_active=...
get_all_sessions(only_active) ==
    /\ \E api \in {"ok", "error"} :
         lastOp' = Op("get_all_sessions", 0,
                      get_all_sessions_with_updated_info(only_active, api), 1, NoSent,
                      <<IF only_active THEN "only_active" ELSE "all">>)
    /\ UNCHANGED <<sessions, pings, ec2, dns, taskQ, termQ, now, otherVars>>

-----------------------------------------------------------------------------
(* Environment: the provider moves instances on, the clock advances *)

EnvOp == Op("env", 0, "ok", 1, NoSent, <<>>)

InstanceRuns(s) ==
    /\ ec2[s] = "pending"
    /\ ec2' = [ec2 EXCEPT ![s] = "running"]
    /\ lastOp' = EnvOp
    /\ UNCHANGED <<sessions, pings, dns, taskQ, termQ, now, otherVars>>

InstanceTerminated(s) ==
    /\ ec2[s] = "shutting-down"
    /\ ec2' = [ec2 EXCEPT ![s] = "terminated"]
    /\ lastOp' = EnvOp
    /\ UNCHANGED <<sessions, pings, dns, taskQ, termQ, now, otherVars>>

\* some time after termination the provider no longer knows the instance
InstancePurged(s) ==
    /\ ec2[s] = "terminated"
    /\ ec2' = [ec2 EXCEPT ![s] = "gone"]
    /\ lastOp' = EnvOp
    /\ UNCHANGED <<sessions, pings, dns, taskQ, termQ, now, otherVars>>

TickStep == inactivity_minutes + 1

Tick ==
    /\ now + TickStep <= MaxNow
    /\ now' = now + TickStep
    /\ UNCHANGED <<sessions, pings, ec2, dns, taskQ, termQ, lastOp, otherVars>>

-----------------------------------------------------------------------------
(* Session lifecycle specification *)


Init ==
    /\ sessions = << >>
    /\ pings = << >>
    /\ ec2 = [s \in Sessions |-> "none"]
    /\ dns = [s \in Sessions |-> 0]
    /\ taskQ = [s \in Sessions |-> <<>>]
    /\ termQ = [s \in Sessions |-> 0]
    /\ now = inactivity_minutes
    /\ lastOp = Op("init", 0, "ok", 1, NoSent, <<>>)
    /\ scanned = <<>>
    /\ dev = [s \in Sessions |-> NoDevice]
    /\ NoMedia

Next ==
    \/ create_session
    \/ \E s \in Focus : EndSession(s)
    \/ \E s \in Focus : GetSession(s)
    \/ \E s \in Focus : GetPing(s)
    \/ inactive_session_cleanup_handler
    \/ \E s \in Focus : session_termination_handler(s)
    \/ \E s \in Focus : tasks_handler(s)
    \/ \E s \in Focus : InstanceRuns(s)
    \/ \E s \in Focus : InstanceTerminated(s)
    \/ \E s \in Focus : InstancePurged(s)
    \/ Tick

Spec == Init /\ [][Next]_vars


-----------------------------------------------------------------------------
(* Properties of the session lifecycle *)

Logged(entries) == \E i \in DOMAIN lastOp.log : lastOp.log[i] \in entries

\* C1: whenever StartSession (create_session) returns, the Session item with the
\* returned id is stored in Provisioning (ssl_configured false, end_time unset)
\* and the setup queue holds exactly one message for it, carrying the id of its
\* instance.
C1_StartSessionProvisionsAndEnqueuesOnce ==
    (lastOp.op = "create_session" /\ lastOp.result = "ok") =>
        LET s == lastOp.sid
        IN  /\ s \in DOMAIN sessions
            /\ sessions[s].ssl_configured = FALSE
            /\ sessions[s].end_time = None
            /\ ec2[s] \in {"pending", "running"}
            /\ taskQ[s] = <<sessions[s].instance>>

C1_Witness ==
    /\ lastOp.op = "create_session"
    /\ lastOp.result = "ok"
    /\ lastOp.sid \in DOMAIN sessions
    /\ taskQ[lastOp.sid] = <<InstanceIdOf(lastOp.sid)>>

\* C2: EndSession called twice in a row on one existing session enqueues at most
\* one termination task (the second call finds scheduled_for_deletion set).
C2_EndSessionTwiceEnqueuesOnce ==
    lastOp.op = "end_session" => lastOp.sent[lastOp.sid] <= 1

\* C3: under every interleaving of EndSession calls and sweeps, at most one
\* termination task per session is outstanding in the termination queue.
C3_AtMostOneOutstandingTerminationTask ==
    \A s \in Sessions : termQ[s] <= 1

\* what is left that would still release the instance of session s: a queued
\* termination task, or a liveness record a later sweep can select
ReleasePending(s) ==
    \/ termQ[s] > 0
    \/ /\ s \in DOMAIN pings
       /\ pings[s].instance_active
       /\ ~pings[s].scheduled_for_deletion

\* C6: no state has end_time set on a session whose instance still runs while
\* nothing is left that will terminate that instance.
C6_EndedSessionInstanceIsReleased ==
    \A s \in DOMAIN sessions :
        (sessions[s].end_time # None /\ ec2[s] \in {"pending", "running"})
            => ReleasePending(s)

\* C7: a termination task for a session whose instance the provider no longer
\* knows completes: the liveness record is marked inactive, the DNS delete is
\* made and found already absent, and the handler raises nothing.
C7_TerminationOfGoneInstanceCompletes ==
    (lastOp.op = "session_termination" /\ Logged({"instance:none"})
        /\ ec2[lastOp.sid] = "gone") =>
            /\ lastOp.result = "ok"
            /\ lastOp.sid \in DOMAIN pings
            /\ pings[lastOp.sid].instance_active = FALSE
            /\ Logged({"dns:absent", "dns:deleted"})

\* C8: when device cleanup or the recording upload failed, the termination
\* handler still called TerminateInstance and the DNS delete for the session.
C8_ReleaseDespiteCleanupOrUploadFailure ==
    (lastOp.op = "session_termination"
        /\ Logged({"cleanup:failed", "upload:failed"})) =>
            /\ Logged({"terminate:ok", "terminate:error"})
            /\ Logged({"dns:deleted", "dns:absent", "dns:error", "dns:invalid"})

C8_Witness ==
    /\ lastOp.op = "session_termination"
    /\ Logged({"cleanup:failed"})
    /\ Logged({"upload:failed"})
    /\ Logged({"terminate:ok"})
    /\ Logged({"dns:deleted"})
    /\ ec2[lastOp.sid] = "shutting-down"
    /\ dns[lastOp.sid] = 0


-----------------------------------------------------------------------------
(* Sweep specification: every session slot holds a provisioned, running session
   created at minute 0; requests, sweeps and time interleave *)

InitSweep ==
    /\ sessions = [s \in Sessions |-> [NewSession(s) EXCEPT !.ssl_configured = TRUE]]
    /\ pings = [s \in Sessions |-> NewPing(TRUE, 0)]
    /\ ec2 = [s \in Sessions |-> "running"]
    /\ dns = [s \in Sessions |-> IpOf(s)]
    /\ taskQ = [s \in Sessions |-> <<>>]
    /\ termQ = [s \in Sessions |-> 0]
    /\ now = inactivity_minutes
    /\ lastOp = Op("init", 0, "ok", 1, NoSent, <<>>)
    /\ scanned = <<>>
    /\ dev = [s \in Sessions |-> NoDevice]
    /\ NoMedia

NextSweep ==
    \/ inactive_session_cleanup_handler
    \/ \E s \in Sessions : EndSession(s)
    \/ \E s \in Sessions : GetPing(s)
    \/ Tick

SpecSweep == InitSweep /\ [][NextSweep]_vars

\* C4: over a run of consecutive sweeps with no other operation between them,
\* each session is sent to the termination queue at most once, and a session
\* that was sent has scheduled_for_deletion set.
C4_BackToBackSweepsEnqueueOnce ==
    lastOp.op = "sweep" =>
        \A s \in Sessions :
            /\ lastOp.sent[s] <= 1
            /\ lastOp.sent[s] = 1 => pings[s].scheduled_for_deletion

C4_Witness ==
    /\ lastOp.op = "sweep"
    /\ lastOp.seq = 2
    /\ lastOp.result = "ok"
    /\ lastOp.log = <<>>
    /\ \A s \in Sessions : lastOp.sent[s] = 1 /\ termQ[s] = 1

\* a liveness record that is responding, not scheduled for termination and
\* last accessed more than inactivity_minutes before now
Eligible(s) ==
    /\ pings[s].valid
    /\ pings[s].instance_active
    /\ ~pings[s].scheduled_for_deletion
    /\ \E t \in 0 .. MaxNow :
          /\ pings[s].last_accessed_on = IsoFormat(t)
          /\ t < now - inactivity_minutes

\* C20: a sweep that returns normally has called EndSession (end_session) for
\* exactly the liveness records that were eligible when it started, whether the
\* store returns the scan in one page or in pages of one record.
C20_SweepEndsExactlyTheEligible ==
    [][(now' = now /\ lastOp'.op = "sweep" /\ lastOp'.result = "ok") =>
          /\ Range(lastOp'.log) = {s \in DOMAIN pings : Eligible(s)}
          /\ Len(lastOp'.log) = Cardinality(Range(lastOp'.log))]_vars

\* C37: in a sweep whose scan returned, end_session is called for every
\* eligible liveness record whose session was loaded, whichever other sessions
\* failed to load and whichever end_session calls raised
C37_OneFailureDoesNotStopTheSweep ==
    [][(now' = now /\ lastOp'.op = "sweep" /\ lastOp'.result # "scan_raised") =>
          \A s \in DOMAIN pings :
              (Eligible(s) /\ (0 - s) \notin Range(lastOp'.log))
                  => s \in Range(lastOp'.log)]_vars

C20_Witness ==
    /\ lastOp.op = "sweep"
    /\ lastOp.result = "ok"
    /\ lastOp.log = [i \in 1 .. MaxSessions |-> i]
    /\ \A s \in Sessions : pings[s].scheduled_for_deletion /\ termQ[s] > 0

-----------------------------------------------------------------------------
(* Scan specification: get_inactive_session_pings over every small liveness
   table whose timestamps lie around the cutoff *)

ScanTimes == ScanFrom .. ScanFrom + ScanSpan

InitScan ==
    /\ sessions = [s \in Sessions |-> NewSession(s)]
    /\ pings \in [Sessions ->
                    {[NewPing(a, t) EXCEPT !.scheduled_for_deletion = d] :
                        a \in BOOLEAN, d \in BOOLEAN, t \in ScanTimes}]
    /\ ec2 = [s \in Sessions |-> "running"]
    /\ dns = [s \in Sessions |-> 0]
    /\ taskQ = [s \in Sessions |-> <<>>]
    /\ termQ = [s \in Sessions |-> 0]
    /\ now \in {t + inactivity_minutes : t \in ScanTimes}
    /\ lastOp = Op("init", 0, "ok", 1, NoSent, <<>>)
    /\ scanned = <<>>
    /\ dev = [s \in Sessions |-> NoDevice]
    /\ NoMedia

ScanInactive ==
    /\ \E pageSize \in PageSizes :
         scanned' = get_inactive_session_pings(pings, now, pageSize)
    /\ lastOp' = Op("scan", 0, "ok", 1, NoSent, <<>>)
    /\ UNCHANGED <<sessions, pings, ec2, dns, taskQ, termQ, now, dev, mediaVars>>

NextScan == ScanInactive

SpecScan == InitScan /\ [][NextScan]_vars

Selectable(s) ==
    /\ pings[s].valid
    /\ pings[s].instance_active
    /\ ~pings[s].scheduled_for_deletion

\* C5: the inactivity comparison is strict: an active, unscheduled liveness
\* record last accessed exactly inactivity_minutes ago is not in the scan result,
\* and one last accessed one minute earlier is.
C5_InactivityComparisonIsStrict ==
    lastOp.op = "scan" =>
        \A s \in DOMAIN pings :
            Selectable(s) =>
                /\ pings[s].last_accessed_on = IsoFormat(now - inactivity_minutes)
                      => s \notin Range(scanned)
                /\ pings[s].last_accessed_on = IsoFormat(now - inactivity_minutes - 1)
                      => s \in Range(scanned)

C5_Witness ==
    /\ lastOp.op = "scan"
    /\ \E s, k \in DOMAIN pings :
          /\ Selectable(s) /\ Selectable(k)
          /\ pings[s].last_accessed_on = IsoFormat(now - inactivity_minutes)
          /\ pings[k].last_accessed_on = IsoFormat(now - inactivity_minutes - 1)
          /\ scanned = <<k>>


-----------------------------------------------------------------------------
(* Device specification: one session from the return of create_session on,
   with the device-control endpoints called at any moment of its life *)

InitDevice ==
    /\ sessions = (1 :> NewSession(1))
    /\ pings = (1 :> NewPing(TRUE, inactivity_minutes))
    /\ ec2 = [s \in Sessions |-> IF s = 1 THEN "pending" ELSE "none"]
    /\ dns = [s \in Sessions |-> 0]
    /\ taskQ = _enqueue_session_creation_task([s \in Sessions |-> <<>>], 1, InstanceIdOf(1))
    /\ termQ = [s \in Sessions |-> 0]
    /\ now = inactivity_minutes
    /\ lastOp = Op("create_session", 1, "ok", 1, NoSent,
                   <<create_session_response("ok")>>)
    /\ scanned = <<>>
    /\ dev = [s \in Sessions |-> NoDevice]
    /\ NoMedia

NextDevice ==
    \/ \E s \in Focus : InstanceRuns(s)
    \/ \E s \in Focus : tasks_handler(s)
    \/ \E s \in Focus, enabled \in BOOLEAN : set_internet_access(s, enabled)
    \/ \E s \in Focus, enabled \in BOOLEAN : set_kiosk_mode(s, enabled)
    \/ \E s \in Focus : EndSession(s)
    \/ \E s \in Focus : session_termination_handler(s)
    \/ \E s \in Focus : InstanceTerminated(s)

SpecDevice == InitDevice /\ [][NextDevice]_vars

\* C9: whenever SetNetworkAccess (set_internet_access) has raised the device's
\* root access, it has also issued the revocation before it returns or raises,
\* a failed data/WiFi command included.
C9_RevocationIssuedOnEveryPath ==
    (lastOp.op = "set_internet_access" /\ Logged({"elevate:ok"})) =>
        Logged({"revoke:ok", "revoke:failed"})

\* C10: a device-control request is answered by the device only while the
\* session's instance is running and its ssl_configured is true.
C10_DeviceControlOnlyWhenActive ==
    (lastOp.op \in {"set_internet_access", "set_kiosk_mode"}
        /\ Logged({"elevate:ok", "toggles:ok", "revoke:ok", "kiosk:ok"})) =>
            /\ ec2[lastOp.sid] = "running"
            /\ sessions[lastOp.sid].ssl_configured


-----------------------------------------------------------------------------
(* Setup order, request-path errors *)

\* C11: when the setup handler has set ssl_configured for a session, the DNS
\* record of the session domain was bound to the instance address first.
C11_TlsBoundOnlyAfterDnsBound ==
    (lastOp.op = "setup" /\ Logged({"cert:2xx", "cert:404_shell_ok"})) =>
        /\ Logged({"dns:ok"})
        /\ dns[Session_domain_name(lastOp.sid)] = IpOf(lastOp.sid)

\* C12: when the instance launch fails on the vCPU quota, StartSession answers
\* 503 and leaves no Session item, no liveness item, no setup message and no
\* instance behind.
C12_QuotaIsDistinctAndCreatesNothing ==
    (lastOp.op = "create_session" /\ lastOp.result = "quota") =>
        /\ lastOp.log = <<"503">>
        /\ lastOp.sid \notin DOMAIN sessions
        /\ lastOp.sid \notin DOMAIN pings
        /\ taskQ[lastOp.sid] = <<>>
        /\ ec2[lastOp.sid] = "none"

C12_Witness ==
    /\ lastOp.op = "create_session"
    /\ lastOp.result = "quota"
    /\ lastOp.log = <<"503">>
    /\ sessions = << >>
    /\ pings = << >>


\* C16: the Session a successful StartSession (create_session) returns has an
\* id, an instance whose lifecycle state is pending or running, and no end time.
C16_StartedSessionReportsLiveInstance ==
    (lastOp.op = "create_session" /\ lastOp.result = "ok") =>
        LET session == create_session_return(sessions, lastOp.sid)
        IN  /\ session.SK \in Sessions
            /\ session.end_time = None
            /\ "instance_state" \in DOMAIN session.instance
            /\ session.instance.instance_state \in {"pending", "running"}

\* C19: reading a session, or its ping, by an id that has no record answers
\* with the not-found status 404, not with the unexpected-error status 500.
C19_LookupMissIsNotFound ==
    /\ (lastOp.op = "get_session" /\ lastOp.sid \notin DOMAIN sessions) =>
            lastOp.result = "404"
    /\ (lastOp.op = "get_ping" /\ lastOp.sid \notin DOMAIN pings) =>
            lastOp.result = "404"

\* the position in the log of the last operation of an entry among the given
\* ones, 0 when there is none
LogIndex(entries) ==
    IF Logged(entries)
    THEN CHOOSE i \in DOMAIN lastOp.log :
            /\ lastOp.log[i] \in entries
            /\ \A j \in 1 .. i - 1 : lastOp.log[j] \notin entries
    ELSE 0

\* C21: the termination handler takes its steps in the order cleanup, upload,
\* release of the instance, release of the DNS record, liveness marked inactive,
\* terminationScheduled cleared, each after the one before it has ended.
C21_TerminationStepsInOrder ==
    (lastOp.op = "session_termination" /\ Logged({"inactive"})) =>
        /\ LogIndex({"cleanup:ok", "cleanup:failed"}) = 1
        /\ LogIndex({"upload:ok", "upload:failed"}) = 2
        /\ LogIndex({"terminate:ok"}) = 3
        /\ LogIndex({"dns:deleted", "dns:absent", "dns:invalid", "dns:error"}) = 4
        /\ LogIndex({"inactive"}) = 5
        /\ LogIndex({"end_time", "status:raised"}) = 6

\* C22: when the termination handler has finished a task for an existing
\* session, with its status update written, the Session has its end time and
\* the liveness record is not responding and not scheduled for termination.
C22_FinishedTerminationLeavesSessionEnded ==
    (/\ lastOp.op = "session_termination"
     /\ lastOp.sid \in DOMAIN sessions
     /\ Logged({"unschedule"})) =>
        /\ sessions[lastOp.sid].end_time # None
        /\ ~pings[lastOp.sid].instance_active
        /\ ~pings[lastOp.sid].scheduled_for_deletion

C24_ReadinessWaitEndsOrAbandons ==
    [][(now' = now /\ lastOp'.op = "setup") =>
          LET s == lastOp'.sid
              waited == WaitLoop(s, 0, 0)
          IN  /\ waited.polls * poll_sleep <= wait_timeout
              /\ IF ec2[s] = "running"
                 THEN /\ waited.instance_info = CompleteInstanceInfo(s)
                      /\ lastOp'.log[1] \in {"dns:ok", "dns:error"}
                 ELSE /\ waited.instance_info = NoInstance
                      /\ lastOp'.log = <<"wait:timeout">>
                      /\ dns' = dns
                      /\ dev' = dev
                      /\ sessions' = sessions]_vars

C24_Witness ==
    /\ lastOp.op = "setup"
    /\ lastOp.log = <<"wait:timeout">>
    /\ lastOp.sid \in DOMAIN sessions
    /\ ~sessions[lastOp.sid].ssl_configured
    /\ ec2[lastOp.sid] = "pending"
    /\ taskQ[lastOp.sid] = <<>>

C26_TlsRetriesAreBounded ==
    lastOp.op = "setup" =>
        /\ lastOp.seq - 1 <= total_retries
        /\ Logged({"cert:failed"}) =>
              /\ lastOp.result = "ok"
              /\ taskQ[lastOp.sid] = <<>>
              /\ lastOp.sid \in DOMAIN sessions => ~sessions[lastOp.sid].ssl_configured

C26_Witness ==
    /\ lastOp.op = "setup"
    /\ lastOp.seq = total_retries + 1
    /\ lastOp.log = <<"dns:ok", "cert:failed">>
    /\ ~sessions[lastOp.sid].ssl_configured
    /\ ~dev[lastOp.sid].cert

\* C32: when the termination handler has consumed a task for a session whose
\* instance the provider still holds as pending or running, it has called
\* terminate_instance for it
C32_ConsumedTaskRequestedTermination ==
    (/\ lastOp.op = "session_termination"
     /\ ec2[lastOp.sid] \in {"pending", "running"}) =>
        Logged({"terminate:ok", "terminate:error"})

\* C33: a liveness record that the termination handler has marked as not
\* responding is not marked as responding again by any later step
C33_InactiveStaysInactive ==
    [][\A s \in Focus :
         (s \in DOMAIN pings /\ pings[s].valid /\ ~pings[s].instance_active)
             => ~pings'[s].instance_active]_vars

\* C35: when create_session raised after the instance was launched, no
\* pending or running instance is left without both its Session item and its
\* liveness item
C35_FailedStartLeavesNoOrphanInstance ==
    (/\ lastOp.op = "create_session"
     /\ lastOp.result \in {"session_put_failed", "ping_put_failed", "enqueue_failed"}
     /\ ec2[lastOp.sid] \in {"pending", "running"}) =>
        /\ lastOp.sid \in DOMAIN sessions
        /\ lastOp.sid \in DOMAIN pings

\* C36: a liveness record with scheduled_for_deletion set has a termination
\* task for its session in the termination queue
C36_ScheduledHasTerminationTask ==
    \A s \in DOMAIN pings : pings[s].scheduled_for_deletion => termQ[s] > 0

-----------------------------------------------------------------------------
(* Redelivery specification: the session lifecycle with a termination queue
   that delivers a message more than once *)

\* SQS delivers at least once: a termination message that is in the queue is
\* handed to the handler a second time
redeliver_termination(s) ==
    /\ termQ[s] > 0
    /\ termQ[s] < MaxQueue
    /\ termQ' = [termQ EXCEPT ![s] = @ + 1]
    /\ lastOp' = EnvOp
    /\ UNCHANGED <<sessions, pings, ec2, dns, taskQ, now, otherVars>>

NextRedelivery ==
    \/ Next
    \/ \E s \in Focus : redeliver_termination(s)

SpecRedelivery == Init /\ [][NextRedelivery]_vars

\* a delivery of the termination message of s has run to its end: the session
\* has its end time, the instance is released, the DNS record is gone and the
\* liveness record is inactive and not scheduled
TerminationDelivered(s) ==
    /\ s \in DOMAIN sessions
    /\ sessions[s].end_time # None
    /\ ec2[s] \in {"shutting-down", "terminated", "gone"}
    /\ dns[Session_domain_name(s)] = 0
    /\ s \in DOMAIN pings
    /\ ~pings[s].instance_active
    /\ ~pings[s].scheduled_for_deletion

\* C17: delivering the termination message of a session again, after a delivery
\* of it has run to its end, leaves the persisted Session and liveness records,
\* the provider state and the DNS record as the first delivery left them,
\* whenever no store or provider call of the second delivery fails.
C17_TerminationRedeliveryChangesNothing ==
    [][(/\ lastOp'.op = "session_termination"
        /\ TerminationDelivered(lastOp'.sid)
        /\ \A i \in DOMAIN lastOp'.log :
              lastOp'.log[i] \notin {"session:none", "status:raised",
                                     "terminate:error", "dns:error"}) =>
          /\ sessions' = sessions
          /\ pings' = pings
          /\ ec2' = ec2
          /\ dns' = dns]_vars

-----------------------------------------------------------------------------
(* Listing specification: the session lifecycle together with the listing of
   all sessions *)

NextListing ==
    \/ Next
    \/ \E only_active \in BOOLEAN : get_all_sessions(only_active)

SpecListing == Init /\ [][NextListing]_vars

\* C18: a session whose end time is set is never among the sessions the
\* only_active listing returns.
C18_EndedSessionNotListedAsActive ==
    (lastOp.op = "get_all_sessions" /\ lastOp.log = <<"only_active">>) =>
        \A i \in DOMAIN lastOp.result :
            sessions[lastOp.result[i]].end_time = None

-----------------------------------------------------------------------------
(* Upload specification: an Active session whose device holds some recording
   files; the upload runs, and may run again *)

\* the names a device directory can hold: well-named segments of one game, a
\* recording whose name has too few pieces, and the recorder's control file
FileNames ==
    {RecordingName(<<1, v, 1>>) : v \in 1 .. MaxFiles}
        \cup {RecordingName(<<1, 1>>), ControlFile}

Directories ==
    {d \in UNION {[1 .. n -> FileNames] : n \in 0 .. MaxFiles} :
        \A i, j \in DOMAIN d : i # j => d[i] # d[j]}

InitUpload ==
    /\ sessions = (1 :> [NewSession(1) EXCEPT !.ssl_configured = TRUE])
    /\ pings = (1 :> NewPing(TRUE, inactivity_minutes))
    /\ ec2 = [s \in Sessions |-> IF s = 1 THEN "running" ELSE "none"]
    /\ dns = [s \in Sessions |-> IF s = 1 THEN IpOf(1) ELSE 0]
    /\ taskQ = [s \in Sessions |-> <<>>]
    /\ termQ = [s \in Sessions |-> 0]
    /\ now = inactivity_minutes
    /\ lastOp = Op("init", 0, "ok", 1, NoSent, <<>>)
    /\ scanned = <<>>
    /\ dev = [s \in Sessions |-> IF s = 1 THEN [NoDevice EXCEPT !.cert = TRUE]
                                          ELSE NoDevice]
    /\ recordings \in Directories
    /\ videos = << >>
    /\ tmp = {}
    /\ bucket = {}
    /\ catalog = NoCatalog
    /\ recorder = NoRecorder
    /\ inflight = NoInflight

NextUpload == \E s \in Focus : upload_all_recordings_to_s3(s)

SpecUpload == InitUpload /\ [][NextUpload]_vars

\* the video ids of the well-named segment files on the device
WellNamed ==
    {<<recordings[i].body[2], recordings[i].body[3]>> :
        i \in {j \in DOMAIN recordings :
                 recordings[j].recording /\ Len(recordings[j].body) = 3}}

\* C13: after an upload in which no listing, record creation, pull or blob put
\* failed and which has put every well-named segment file into the bucket, the
\* VIDEO partition holds exactly one record per such file, each with its size
\* set, and no local temp file is left.
C13_UploadCreatesSizedRecordsAndCleansUp ==
    (lastOp.op = "upload_recordings"
        /\ ~Logged({"list:failed", "failed:create", "failed:pull", "failed:put"})
        /\ bucket = WellNamed) =>
            /\ DOMAIN videos = WellNamed
            /\ \A v \in DOMAIN videos : videos[v].size # None
            /\ tmp = {}

\* C14: an upload that got the file list answers without an error and has gone
\* through every listed file, whatever failed on some of them.
C14_FileFailureDoesNotAbortBatch ==
    (lastOp.op = "upload_recordings" /\ Logged({"list:ok"})) =>
        /\ lastOp.result = "200"
        /\ Len(lastOp.log) = 1 + Len(_list_recording_files(recordings))

C14_Witness ==
    /\ lastOp.op = "upload_recordings"
    /\ lastOp.result = "200"
    /\ Len(lastOp.log) = 3
    /\ lastOp.log[2] \in {"failed:create", "failed:pull", "failed:put", "skipped"}
    /\ lastOp.log[3] = "failed:size"
    /\ Cardinality(bucket) = 1


\* C39: every Video item the upload has put has its object in the recordings
\* bucket
C39_VideoItemHasItsObject ==
    \A video_id \in DOMAIN videos : video_id \in bucket

-----------------------------------------------------------------------------
(* Recommendation specification: a catalog of images and applications, videos
   being recorded for the applications, and the two recommendations *)

MaxAmis == 2
MaxGames == 2

\* enough video ids for one application to overflow a page while another fills it
MaxVideos == 2 * QueryPage + 1

VideoIds == {<<k, 1>> : k \in 1 .. MaxVideos}

Catalogs ==
    {[amis |-> SortedSeq(A), games |-> g] :
        A \in SUBSET (1 .. MaxAmis),
        g \in UNION {[G -> 1 .. MaxAmis] : G \in SUBSET (1 .. MaxGames)}}

InitRecommend ==
    /\ sessions = << >>
    /\ pings = << >>
    /\ ec2 = [s \in Sessions |-> "none"]
    /\ dns = [s \in Sessions |-> 0]
    /\ taskQ = [s \in Sessions |-> <<>>]
    /\ termQ = [s \in Sessions |-> 0]
    /\ now = 0
    /\ lastOp = Op("init", 0, "ok", 1, NoSent, <<>>)
    /\ scanned = <<>>
    /\ dev = [s \in Sessions |-> NoDevice]
    /\ recordings = <<>>
    /\ videos = << >>
    /\ tmp = {}
    /\ bucket = {}
    /\ catalog \in Catalogs
    /\ recorder = NoRecorder
    /\ inflight = NoInflight

NextRecommend ==
    \/ recommended_ami
    \/ \E a \in 1 .. MaxAmis : recommended_game(a)
    \/ \E x \in VideoIds, g \in 1 .. MaxGames : post_video(x, g)

SpecRecommend == InitRecommend /\ [][NextRecommend]_vars

\* the Recording count of an application, and of an image (summed over the
\* applications targeting it)
GameCount(g) == Cardinality({x \in DOMAIN videos : videos[x].game_id = g})

ImageCount(a) ==
    Cardinality({x \in DOMAIN videos :
        /\ videos[x].game_id \in DOMAIN catalog.games
        /\ catalog.games[videos[x].game_id] = a})

GamesOf(a) == SortedSeq({g \in DOMAIN catalog.games : catalog.games[g] = a})

\* C15: the recommended image is the first listed image whose Recording count
\* (summed over its applications) is minimal among all images, the recommended
\* application of an image is its first application with minimal Recording
\* count, and nothing is returned when there is no candidate.
C15_RecommendationIsMinimal ==
    /\ lastOp.op = "get_recommended_ami" =>
          IF catalog.amis = <<>> THEN lastOp.result = None
          ELSE \E i \in DOMAIN catalog.amis :
                  /\ lastOp.result = <<catalog.amis[i]>>
                  /\ \A j \in DOMAIN catalog.amis :
                        ImageCount(catalog.amis[i]) <= ImageCount(catalog.amis[j])
                  /\ \A j \in 1 .. i - 1 :
                        ImageCount(catalog.amis[j]) > ImageCount(catalog.amis[i])
    /\ lastOp.op = "get_recommended_game_for_ami" =>
          LET games == GamesOf(lastOp.sid)
          IN  IF games = <<>> THEN lastOp.result = None
              ELSE \E i \in DOMAIN games :
                      /\ lastOp.result = <<games[i]>>
                      /\ \A j \in DOMAIN games : GameCount(games[i]) <= GameCount(games[j])
                      /\ \A j \in 1 .. i - 1 : GameCount(games[j]) > GameCount(games[i])

-----------------------------------------------------------------------------
(* Game specification: an Active session with its certificate installed and a
   catalog of one application; games are started and stopped on any session
   slot and for any application id *)

InitGame ==
    /\ sessions = (1 :> [NewSession(1) EXCEPT !.ssl_configured = TRUE])
    /\ pings = (1 :> NewPing(TRUE, inactivity_minutes))
    /\ ec2 = [s \in Sessions |-> IF s = 1 THEN "running" ELSE "none"]
    /\ dns = [s \in Sessions |-> IF s = 1 THEN IpOf(1) ELSE 0]
    /\ taskQ = [s \in Sessions |-> <<>>]
    /\ termQ = [s \in Sessions |-> 0]
    /\ now = inactivity_minutes
    /\ lastOp = Op("init", 0, "ok", 1, NoSent, <<>>)
    /\ scanned = <<>>
    /\ dev = [s \in Sessions |-> IF s = 1 THEN [NoDevice EXCEPT !.cert = TRUE]
                                          ELSE NoDevice]
    /\ recordings = <<>>
    /\ videos = << >>
    /\ tmp = {}
    /\ bucket = {}
    /\ catalog = [amis |-> <<1>>, games |-> (1 :> 1)]
    /\ recorder = NoRecorder
    /\ inflight = NoInflight

NextGame ==
    \/ \E s \in Sessions, game_id \in 1 .. MaxGames : start_game_in_session(s, game_id)
    \/ \E s \in Sessions : stop_game_in_session(s)

SpecGame == InitGame /\ [][NextGame]_vars

\* the lookups that come before the device steps of a game start
StartLookupsFound ==
    /\ get_game_by_id(catalog, lastOp.seq) # None
    /\ _get_address_and_instance_id(lastOp.sid) # None

\* the place of each device request in the order of a game start
StartRank ==
    [e \in {"orientation:ok", "orientation:failed"} |-> 1]
    @@ [e \in {"keyboard:ok", "keyboard:failed"} |-> 2]
    @@ [e \in {"elevate:ok", "elevate:failed", "toggles:ok", "toggles:failed",
               "revoke:ok", "revoke:failed"} |-> 3]
    @@ [e \in {"launch:ok", "launch:failed", "cert:2xx", "cert:failed",
               "relaunch:ok", "relaunch:failed"} |-> 4]
    @@ [e \in {"kiosk:ok", "kiosk:failed"} |-> 5]
    @@ [e \in {"record:ok", "record:failed"} |-> 6]

\* the place of each device request in the order of a game stop
StopRank ==
    [e \in {"stop_recording:ok", "stop_recording:failed"} |-> 1]
    @@ [e \in {"stop_apps:ok", "stop_apps:failed"} |-> 2]
    @@ [e \in {"kiosk:ok", "kiosk:failed"} |-> 3]
    @@ [e \in {"elevate:ok", "elevate:failed", "toggles:ok", "toggles:failed",
               "revoke:ok", "revoke:failed"} |-> 4]
    @@ [e \in {"orientation:ok", "orientation:failed"} |-> 5]

\* the entries of the log are requests of the ranking, in its order
InRankOrder(rank) ==
    /\ \A i \in DOMAIN lastOp.log : lastOp.log[i] \in DOMAIN rank
    /\ \A i, j \in DOMAIN lastOp.log : i < j => rank[lastOp.log[i]] <= rank[lastOp.log[j]]

\* every place of the ranking has a request in the log
EveryRankIssued(rank) ==
    \A e \in DOMAIN rank : \E i \in DOMAIN lastOp.log :
        lastOp.log[i] \in DOMAIN rank /\ rank[lastOp.log[i]] = rank[e]

\* C27: a game start issues its device requests in the order orientation,
\* virtual keyboard, network access, launch, kiosk, screen recording, each of
\* them when the sequence runs to its end; when the application or the session
\* address is not found it issues no device request at all
C27_StartGameStepsInOrder ==
    lastOp.op = "start_game" =>
        IF StartLookupsFound
        THEN /\ InRankOrder(StartRank)
             /\ lastOp.result = "200" => EveryRankIssued(StartRank)
        ELSE lastOp.log = <<>>

\* C28: in a game start or stop whose lookups succeeded every step of the
\* sequence is attempted, whichever single steps failed
C28_FailedStepDoesNotStopSequence ==
    /\ (lastOp.op = "start_game" /\ StartLookupsFound) =>
            /\ Logged({"orientation:ok", "orientation:failed"})
            /\ Logged({"keyboard:ok", "keyboard:failed", "keyboard:not_issued"})
            /\ Logged({"toggles:ok", "toggles:failed"})
            /\ Logged({"launch:ok", "launch:failed"})
            /\ Logged({"kiosk:ok", "kiosk:failed"})
            /\ Logged({"record:ok", "record:failed"})
    /\ (lastOp.op = "stop_game" /\ _get_address_and_instance_id(lastOp.sid) # None) =>
            EveryRankIssued(StopRank)

\* a game stop all of whose requests succeeded
StopGameAllSucceeded ==
    /\ lastOp.op = "stop_game"
    /\ lastOp.log # <<>>
    /\ lastOp.result = "200"
    /\ \A i \in DOMAIN lastOp.log :
          lastOp.log[i] \in {"stop_recording:ok", "stop_apps:ok", "kiosk:ok", "elevate:ok",
                             "toggles:ok", "revoke:ok", "orientation:ok"}

\* C29: a game stop issues its device requests in the order stop recording,
\* force-stop of the packages, kiosk off, network on, orientation reset; after
\* a stop in which every request succeeded every one of the five was made, kiosk
\* mode is off and network access is on
C29_StopGameOrderAndOutcome ==
    lastOp.op = "stop_game" =>
        /\ InRankOrder(StopRank)
        /\ StopGameAllSucceeded =>
              /\ EveryRankIssued(StopRank)
              /\ ~dev[lastOp.sid].kiosk
              /\ dev[lastOp.sid].net

C29_Witness ==
    /\ StopGameAllSucceeded
    /\ Len(lastOp.log) = 7
    /\ lastOp.log[1] = "stop_recording:ok"
    /\ lastOp.log[7] = "orientation:ok"

-----------------------------------------------------------------------------
(* Recorder specification: an Active session with its certificate installed;
   recordings are started and stopped, and every script on the device runs at
   its own pace *)

InitRecorder ==
    /\ sessions = (1 :> [NewSession(1) EXCEPT !.ssl_configured = TRUE])
    /\ pings = (1 :> NewPing(TRUE, inactivity_minutes))
    /\ ec2 = [s \in Sessions |-> IF s = 1 THEN "running" ELSE "none"]
    /\ dns = [s \in Sessions |-> IF s = 1 THEN IpOf(1) ELSE 0]
    /\ taskQ = [s \in Sessions |-> <<>>]
    /\ termQ = [s \in Sessions |-> 0]
    /\ now = inactivity_minutes
    /\ lastOp = Op("init", 0, "ok", 1, NoSent, <<>>)
    /\ scanned = <<>>
    /\ dev = [s \in Sessions |-> IF s = 1 THEN [NoDevice EXCEPT !.cert = TRUE]
                                          ELSE NoDevice]
    /\ NoMedia

NextRecorder ==
    \/ \E s \in Focus : _start_screen_recording(s)
    \/ \E s \in Focus : _stop_screen_recording(s)
    \/ \E i \in 1 .. MaxLoops : script_if(i)
    \/ \E i \in 1 .. MaxLoops : script_while(i)
    \/ \E i \in 1 .. MaxLoops : screenrecord(i)
    \/ \E i \in 1 .. MaxLoops : script_rm(i)

SpecRecorder == InitRecorder /\ [][NextRecorder]_vars

\* C30: once the three commands of a stop have been sent and answered, the
\* control file is absent from the device, whatever the scripts did in between
\* and do afterwards; and no script leaves its loop without a segment unless a
\* stop wrote the control file after the script was launched
C30_NoStaleControlFile ==
    /\ (lastOp.op = "stop_recording" /\ lastOp.result = "ok") => ~recorder.flag
    /\ \A i \in DOMAIN recorder.loops :
          (recorder.loops[i].pc \in {"rm", "done"} /\ recorder.loops[i].segments = 0)
              => recorder.loops[i].touched

\* a script launched right after a completed stop, which found an earlier
\* script on the device, has recorded a segment
C30_Witness ==
    \E i \in DOMAIN recorder.loops :
        /\ i > 1
        /\ recorder.loops[i].after_stop
        /\ ~recorder.loops[i].touched
        /\ recorder.loops[i].segments >= 1

\* C38: a script that was on the device when a stop wrote the control file
\* starts no further segment once that stop has sent its three commands
C38_StoppedLoopStartsNoSegment ==
    [][\A i \in DOMAIN recorder.loops :
         (recorder.loops[i].stopped /\ recorder.loops[i].pc = "while")
             => recorder'.loops[i].pc # "screenrecord"]_vars

-----------------------------------------------------------------------------
(* Interleaving specification: the session lifecycle with the ping request
   and the setup handler taken one call at a time, so that EndSession and the
   termination handler can run between the read and the write of a ping and
   between the wait and the DNS record of a setup *)

NextInterleave ==
    \/ create_session
    \/ \E s \in Focus : EndSession(s)
    \/ \E s \in Focus : GetSession(s)
    \/ \E s \in Focus : get_ping_read(s)
    \/ \E s \in Focus : get_ping_write(s)
    \/ \E s \in Focus : session_termination_handler(s)
    \/ \E s \in Focus : tasks_handler_wait(s)
    \/ \E s \in Focus : tasks_handler_configure(s)
    \/ \E s \in Focus : InstanceRuns(s)
    \/ \E s \in Focus : InstanceTerminated(s)

SpecInterleave == Init /\ [][NextInterleave]_vars

\* C31: a liveness refresh (a session read, or the write of a ping request)
\* leaves instance_active and scheduled_for_deletion of the record as the
\* termination handler and EndSession wrote them, whatever ran between its
\* read and its write
C31_RefreshWritesOnlyItsOwnFields ==
    [][\A s \in Focus :
         (/\ lastOp'.op \in {"get_session", "get_ping"}
          /\ lastOp'.sid = s
          /\ s \in DOMAIN pings
          /\ pings[s].valid)
         => /\ pings'[s].instance_active = pings[s].instance_active
            /\ pings'[s].scheduled_for_deletion = pings[s].scheduled_for_deletion]_vars

\* C34: when the setup task and the termination task of a session have both
\* been processed to their end, the session's domain has no A record
C34_NoDanglingDnsRecord ==
    \A s \in Focus :
        (/\ s \in DOMAIN sessions
         /\ taskQ[s] = <<>>
         /\ inflight.setup[s] = NoInstance
         /\ termQ[s] = 0
         /\ sessions[s].end_time # None)
        => dns[s] = 0

-----------------------------------------------------------------------------
(* Abandoned-setup specification: sessions are created and set up, nobody
   reads or ends them, time passes and the sweep runs on its schedule (once a
   minute); a sweep whose store, provider and queue calls all succeed is not
   postponed for ever *)

\* a sweep in which nothing failed: the scan returned, every session loaded and
\* every end_session enqueued its task
SweepSucceeds ==
    /\ inactive_session_cleanup_handler
    /\ lastOp'.result = "ok"
    /\ \A i \in DOMAIN lastOp'.log : termQ'[lastOp'.log[i]] = termQ[lastOp'.log[i]] + 1

NextAbandoned ==
    \/ create_session
    \/ \E s \in Focus : tasks_handler(s)
    \/ \E s \in Focus : InstanceRuns(s)
    \/ inactive_session_cleanup_handler
    \/ Tick

SpecAbandoned ==
    Init /\ [][NextAbandoned]_vars /\ WF_vars(Tick) /\ WF_vars(SweepSucceeds)

\* the setup task of session s was consumed without the certificate being
\* installed, and the session was created before the clock's last step
Abandoned(s) ==
    /\ s \in DOMAIN sessions
    /\ s \in DOMAIN pings
    /\ ~sessions[s].ssl_configured
    /\ lastOp.op = "setup"
    /\ lastOp.sid = s
    /\ \E t \in 0 .. MaxNow - TickStep : pings[s].last_accessed_on = IsoFormat(t)

\* C40: a session whose setup was given up (the wait timed out, or the
\* certificate was not installed) and that nobody reads afterwards gets a
\* termination task from the sweep
C40_AbandonedSessionIsSwept ==
    \A s \in Focus : Abandoned(s) ~> (termQ[s] > 0)

\* what does hold: the sweep selects the session and calls end_session for
\* it, which enqueues the task or leaves the record flagged with no task
AbandonedSessionIsSelected ==
    \A s \in Focus :
        Abandoned(s) ~> (termQ[s] > 0 \/ (s \in DOMAIN pings /\ pings[s].scheduled_for_deletion))

====
